---- MODULE Spec2Model ----
(***************************************************************************)
(* Model of the job-posting pipeline: main_enrichment with its store       *)
(* write (dags/scripts/data_enrichment.py), the flexibility classifiers    *)
(* (scraping_script.py, dags/scripts/linkedin_scraper.py) and the section  *)
(* extraction of scraping_script.py.                                       *)
(***************************************************************************)
EXTENDS Integers, Sequences, FiniteSets, TLC

VARIABLES
    batch,        \* the DataFrame handed to main_enrichment
    df,           \* main_enrichment's working frame (raw_df once registered)
    idx,          \* position of the iterrows loop
    pc,           \* position inside main_enrichment
    tableExists,  \* raw_job_postings is in information_schema.tables
    table,        \* rows of raw_job_postings, in insertion order
    annotated,    \* batch positions whose description reached the annotation loop
    inserted,     \* rows written by the current run's INSERT / CREATE TABLE
    exists0,      \* tableExists when the current run started
    table0,       \* table when the current run started
    prevDone,     \* the previous run of the same batch completed its store write
    runs,         \* number of runs of main_enrichment started so far
    text_content,     \* the text of one posting handed to the flexibility classifiers
    flexibility,      \* job_post['job flexibility'] of scraping_script.py
    page_flexibility, \* job_post["job flexibility"] of dags/scripts/linkedin_scraper.py
    scores,           \* remote_score, hybrid_score, onsite_score
    decision,         \* what lines 82-97 of detect_job_flexibility return for scores
    full_text,        \* desc_div.get_text("\n", strip=True)
    blocks,           \* the cleaned blocks of extract_job_sections_improved
    sections,         \* what extract_job_sections_improved returns
    removal,          \* one call of should_remove: its arguments and result
    skill_doc,        \* one row of the annotation loop: description, sentences
    out1,             \* hard_skills, soft_skills of the row's annotation
    out2,             \* the same of a second annotation of that row
    page,             \* job_soup and company_name handed to extract_location
    location,         \* job_post["location"]
    employment_type,  \* job_post["employment type"]
    scraper,          \* locals of linkedin_scraper.scrape_linkedin_jobs and its position
    pager             \* locals of scraping_script.scrape_linkedin_jobs and its position

storeVars == <<batch, df, idx, pc, tableExists, table, annotated, inserted,
               exists0, table0, prevDone, runs>>

flexVars == <<text_content, flexibility, page_flexibility, scores, decision>>

secVars == <<full_text, blocks, sections>>

skillVars == <<removal, skill_doc, out1, out2>>

locVars == <<page, location, employment_type, scraper, pager>>

vars == <<storeVars, flexVars, secVars, skillVars, locVars>>

----------------------------------------------------------------------------
(* Bounds *)

MaxBatch == 2
MaxTable == 2
MaxRuns == 2
MaxWords == 4
MaxPieces == 3
MaxNameLen == 3
MaxSents == 2
MaxElements == 2

Keys == {"k1", "k2"}
Vals == {"v1", "v2"}
\* a job description: missing, English, another language, or a text on which
\* langdetect raises
DescKinds == {"null", "en", "fr", "undetectable"}

SeqsUpTo(S, n) == UNION {[1..k -> S] : k \in 0..n}

\* the other fields of a document that the filter drops are never read, so one
\* value stands for them
Doc == {d \in [job_link : Keys, desc : DescKinds, val : Vals] :
            d.desc = "en" \/ d.val = "v1"}
Row == [job_link : Keys, desc : {"en"}, val : Vals,
        hard_skills : {"python"}, soft_skills : {"teamwork"}]

----------------------------------------------------------------------------
(* The parts of the state a specification does not use stay as they are here *)

\* Python's None
None == "None"

NoSections ==
    [state |-> "pending", job_description |-> None, company_description |-> None,
     required_qualifications |-> None, preferred_qualifications |-> None]

\* no description is being split into sections
SecIdle ==
    /\ full_text = ""
    /\ blocks = <<>>
    /\ sections = NoSections

\* no page is being searched for a location
\* scrape_linkedin_jobs of linkedin_scraper.py before its loop, lines 305-310
NoScraper ==
    [pc |-> "idle", target_jobs |-> 0, all_jobs |-> <<>>, jobs_found |-> 0,
     page_num |-> 0, processed_links |-> {}, job_listings |-> <<>>]

\* scrape_linkedin_jobs of scraping_script.py before its loop, lines 326-343
NoPager ==
    [pc |-> "idle", target_jobs |-> 0, jobs_found |-> 0, consecutive_failures |-> 0,
     consecutive_empty_pages |-> 0, page_num |-> 0, processed_job_ids |-> {},
     pages_without_new |-> 0]

ScrapeIdle ==
    /\ scraper = NoScraper
    /\ pager = NoPager

LocIdle ==
    /\ page = [job_soup |-> <<>>, company_name |-> None]
    /\ location = [state |-> "pending", value |-> None]
    /\ employment_type = [state |-> "pending", value |-> None]
    /\ ScrapeIdle

NoRemoval == [state |-> "pending", skill_name |-> "", desc |-> "", result |-> FALSE]

NoOutput ==
    [state |-> "pending", sentences |-> <<>>, annotate_calls |-> <<>>,
     hard_skills |-> <<>>, soft_skills |-> <<>>, hard_column |-> "", soft_column |-> ""]

\* no skill is being filtered and no row is being annotated
SkillIdle ==
    /\ removal = NoRemoval
    /\ skill_doc = [desc |-> "", sentences |-> <<>>]
    /\ out1 = NoOutput
    /\ out2 = NoOutput

NoScores == [remote |-> 0, hybrid |-> 0, onsite |-> 0]

\* no posting is being classified
FlexIdle ==
    /\ text_content = ""
    /\ flexibility = "pending"
    /\ page_flexibility = "pending"
    /\ scores = NoScores
    /\ decision = "pending"

----------------------------------------------------------------------------
(* main_enrichment *)

\* langdetect.detect: the language code, or "raise" for LangDetectException
detect(text) ==
    CASE text = "en" -> "en"
      [] text = "fr" -> "fr"
      [] OTHER -> "raise"

\* mutant: the except branch answers True
is_english_RaiseIsEnglish(text) == detect(text) # "fr"

is_english(text) ==
    IF detect(text) = "raise" THEN FALSE ELSE detect(text) = "en"

\* positions of the batch kept by the two filters of lines 64-65
KeptPositions(b) ==
    {i \in 1..Len(b) : b[i].desc # "null" /\ is_english(b[i].desc)}

RECURSIVE SortedSeq(_)
SortedSeq(S) ==
    IF S = {} THEN <<>>
    ELSE LET m == CHOOSE x \in S : \A y \in S : x <= y
         IN <<m>> \o SortedSeq(S \ {m})

\* df after lines 64-68: the kept rows in order, both skill columns ""
FilterBatch(b) ==
    LET pos == SortedSeq(KeptPositions(b))
    IN [i \in 1..Len(pos) |->
           [job_link |-> b[pos[i]].job_link, desc |-> b[pos[i]].desc,
            val |-> b[pos[i]].val, hard_skills |-> "", soft_skills |-> ""]]

\* the comma-joined names the loop body of lines 71-98 computes for a description
HardSkillsOf(desc) == "python"
SoftSkillsOf(desc) == "teamwork"

JobLinks(rows) == {rows[i].job_link : i \in 1..Len(rows)}

RECURSIVE SelectRows(_, _, _)
\* the rows whose job_link is in ks (keep = TRUE) or is not in ks (keep = FALSE)
SelectRows(rows, ks, keep) ==
    IF rows = <<>> THEN <<>>
    ELSE LET r == Head(rows)
             rest == SelectRows(Tail(rows), ks, keep)
         IN IF (r.job_link \in ks) = keep THEN <<r>> \o rest ELSE rest

\* mutant: the DELETE is left out
DeleteRows_None(t, raw_df) == t

\* mutant: the DELETE has no WHERE clause
DeleteRows_All(t, raw_df) == <<>>

\* DELETE FROM raw_job_postings WHERE job_link IN (SELECT job_link FROM raw_df)
DeleteRows(t, raw_df) == SelectRows(t, JobLinks(raw_df), FALSE)

\* INSERT INTO raw_job_postings SELECT * FROM raw_df
InsertRows(t, raw_df) == t \o raw_df

InitStore ==
    /\ batch \in SeqsUpTo(Doc, MaxBatch)
    /\ tableExists \in BOOLEAN
    /\ table \in SeqsUpTo(Row, MaxTable)
    /\ (~tableExists => table = <<>>)
    /\ df = <<>>
    /\ idx = 0
    /\ pc = "start"
    /\ annotated = {}
    /\ inserted = <<>>
    /\ exists0 = tableExists
    /\ table0 = table
    /\ prevDone = FALSE
    /\ runs = 1
    /\ FlexIdle
    /\ SecIdle
    /\ SkillIdle
    /\ LocIdle

\* lines 64-68; a frame built from no records has no "job description" column
\* and line 64 raises KeyError
Filter ==
    /\ UNCHANGED <<flexVars, secVars, skillVars, locVars>>
    /\ pc = "start"
    /\ IF batch = <<>>
       THEN /\ pc' = "raised"
            /\ UNCHANGED <<df, idx>>
       ELSE /\ df' = FilterBatch(batch)
            /\ idx' = 1
            /\ pc' = "annotate"
    /\ UNCHANGED <<batch, tableExists, table, annotated, inserted, exists0,
                   table0, prevDone, runs>>

\* Annotate with the stored row of the document deleted as soon as the
\* document is annotated
Annotate_DeleteAsYouGo ==
    /\ UNCHANGED <<flexVars, secVars, skillVars, locVars>>
    /\ pc = "annotate"
    /\ idx <= Len(df)
    /\ df' = [df EXCEPT ![idx].hard_skills = HardSkillsOf(df[idx].desc),
                        ![idx].soft_skills = SoftSkillsOf(df[idx].desc)]
    /\ annotated' = annotated \cup {SortedSeq(KeptPositions(batch))[idx]}
    /\ idx' = idx + 1
    /\ table' = DeleteRows(table, <<df[idx]>>)
    /\ UNCHANGED <<batch, pc, tableExists, inserted, exists0, table0,
                   prevDone, runs>>

\* one iteration of the loop of lines 70-98
Annotate ==
    /\ UNCHANGED <<flexVars, secVars, skillVars, locVars>>
    /\ pc = "annotate"
    /\ idx <= Len(df)
    /\ df' = [df EXCEPT ![idx].hard_skills = HardSkillsOf(df[idx].desc),
                        ![idx].soft_skills = SoftSkillsOf(df[idx].desc)]
    /\ annotated' = annotated \cup {SortedSeq(KeptPositions(batch))[idx]}
    /\ idx' = idx + 1
    /\ UNCHANGED <<batch, pc, tableExists, table, inserted, exists0, table0,
                   prevDone, runs>>

\* nlp(), skill_extractor.annotate() or a SKILL_DB lookup raises inside the loop:
\* nothing catches it, main_enrichment ends with the exception
AnnotateRaise ==
    /\ UNCHANGED <<flexVars, secVars, skillVars, locVars>>
    /\ pc = "annotate"
    /\ idx <= Len(df)
    /\ pc' = "raised"
    /\ annotated' = annotated \cup {SortedSeq(KeptPositions(batch))[idx]}
    /\ UNCHANGED <<batch, df, idx, tableExists, table, inserted, exists0,
                   table0, prevDone, runs>>

\* lines 100-110: connect, register raw_df, look the table up
TableCheck ==
    /\ UNCHANGED <<flexVars, secVars, skillVars, locVars>>
    /\ pc = "annotate"
    /\ idx > Len(df)
    /\ pc' = IF tableExists THEN "delete" ELSE "create"
    /\ UNCHANGED <<batch, df, idx, tableExists, table, annotated, inserted,
                   exists0, table0, prevDone, runs>>

\* lines 111-114
Delete ==
    /\ UNCHANGED <<flexVars, secVars, skillVars, locVars>>
    /\ pc = "delete"
    /\ table' = DeleteRows(table, df)
    /\ pc' = "insert"
    /\ UNCHANGED <<batch, df, idx, tableExists, annotated, inserted, exists0,
                   table0, prevDone, runs>>

\* lines 115-118, then conn.close()
Insert ==
    /\ UNCHANGED <<flexVars, secVars, skillVars, locVars>>
    /\ pc = "insert"
    /\ table' = InsertRows(table, df)
    /\ inserted' = df
    /\ pc' = "done"
    /\ UNCHANGED <<batch, df, idx, tableExists, annotated, exists0, table0,
                   prevDone, runs>>

\* line 120, then conn.close()
Create ==
    /\ UNCHANGED <<flexVars, secVars, skillVars, locVars>>
    /\ pc = "create"
    /\ tableExists' = TRUE
    /\ table' = df
    /\ inserted' = df
    /\ pc' = "done"
    /\ UNCHANGED <<batch, df, idx, annotated, exists0, table0, prevDone, runs>>

\* the process dies between two statements of the store write; each
\* conn.execute has committed on its own
Crash ==
    /\ UNCHANGED <<flexVars, secVars, skillVars, locVars>>
    /\ pc \in {"delete", "insert", "create"}
    /\ pc' = "crashed"
    /\ UNCHANGED <<batch, df, idx, tableExists, table, annotated, inserted,
                   exists0, table0, prevDone, runs>>

\* enrichment_task runs again on the same records (a retry, or the same batch
\* ingested a second time)
Rerun ==
    /\ UNCHANGED <<flexVars, secVars, skillVars, locVars>>
    /\ pc \in {"done", "raised", "crashed"}
    /\ runs < MaxRuns
    /\ runs' = runs + 1
    /\ prevDone' = (pc = "done")
    /\ exists0' = tableExists
    /\ table0' = table
    /\ df' = <<>>
    /\ idx' = 0
    /\ annotated' = {}
    /\ inserted' = <<>>
    /\ pc' = "start"
    /\ UNCHANGED <<batch, tableExists, table>>

NextStore ==
    \/ Filter
    \/ Annotate
    \/ AnnotateRaise
    \/ TableCheck
    \/ Delete
    \/ Insert
    \/ Create
    \/ Crash
    \/ Rerun

SpecStore == InitStore /\ [][NextStore]_vars

----------------------------------------------------------------------------
(* Text helpers: Python's str and re operations on the model's strings *)

UpperLetters == "ABCDEFGHIJKLMNOPQRSTUVWXYZ"
LowerLetters == "abcdefghijklmnopqrstuvwxyz"
Digits == "0123456789"

CharAt(s, i) == SubSeq(s, i, i)
CharsOf(s) == {CharAt(s, i) : i \in 1..Len(s)}
IndexIn(s, c) == CHOOSE i \in 1..Len(s) : CharAt(s, i) = c

UpperSet == CharsOf(UpperLetters)
LowerSet == CharsOf(LowerLetters)
\* the characters regex \w matches
WordChars == UpperSet \cup LowerSet \cup CharsOf(Digits) \cup {"_"}

\* str.lower() of one character
LowerChar(c) ==
    IF c \in UpperSet
    THEN CharAt(LowerLetters, IndexIn(UpperLetters, c)) ELSE c

UpperChar(c) ==
    IF c \in LowerSet
    THEN CharAt(UpperLetters, IndexIn(LowerLetters, c)) ELSE c

RECURSIVE Lower(_)
\* str.lower()
Lower(s) == IF s = "" THEN "" ELSE LowerChar(CharAt(s, 1)) \o Lower(Tail(s))

IsLetter(c) == c \in UpperSet \cup LowerSet

RECURSIVE TitleFrom(_, _)
TitleFrom(s, prevCased) ==
    IF s = "" THEN ""
    ELSE LET c == CharAt(s, 1)
         IN (IF prevCased THEN LowerChar(c) ELSE UpperChar(c))
                \o TitleFrom(Tail(s), IsLetter(c))

\* str.title(): a letter that follows a non-letter is upper-cased, the others lower-cased
Title(s) == TitleFrom(s, FALSE)

\* regex \w
IsWordChar(c) == c \in WordChars

\* lit occurs in s at position i
LitAt(s, i, lit) ==
    /\ i >= 1
    /\ i + Len(lit) - 1 <= Len(s)
    /\ SubSeq(s, i, i + Len(lit) - 1) = lit

\* keyword in text
Contains(s, lit) == \E i \in 1..Len(s) : LitAt(s, i, lit)

\* regex \b in front of position i, whose character is a word character
BoundaryBefore(s, i) == i = 1 \/ ~IsWordChar(CharAt(s, i - 1))

\* regex \b behind position e, whose character is a word character
BoundaryAfter(s, e) == e = Len(s) \/ ~IsWordChar(CharAt(s, e + 1))

\* what ".*" may span: no line break between positions from and to
NoLineBreak(s, from, to) == \A k \in from..to : CharAt(s, k) # "\n"

\* A pattern \ba\b (b = ""), \ba\b.*\bb\b (inner = TRUE) or \ba.*b\b
\* (inner = FALSE); every a and b begins and ends with a word character.
Pat(a, b, inner) == [a |-> a, b |-> b, inner |-> inner]

\* re.search(pattern, s) finds a match
Search(p, s) ==
    \E i \in 1..Len(s) :
        /\ LitAt(s, i, p.a)
        /\ BoundaryBefore(s, i)
        /\ LET e == i + Len(p.a) - 1
           IN IF p.b = ""
              THEN BoundaryAfter(s, e)
              ELSE /\ p.inner => BoundaryAfter(s, e)
                   /\ \E j \in (e + 1)..Len(s) :
                          /\ LitAt(s, j, p.b)
                          /\ p.inner => BoundaryBefore(s, j)
                          /\ BoundaryAfter(s, j + Len(p.b) - 1)
                          /\ NoLineBreak(s, e + 1, j - 1)

----------------------------------------------------------------------------
(* detect_job_flexibility (scraping_script.py) *)

NumPatterns == 15

remote_patterns ==
    << Pat("remote", "", TRUE), Pat("work from home", "", TRUE), Pat("wfh", "", TRUE),
       Pat("home office", "", TRUE), Pat("distributed team", "", TRUE),
       Pat("fully remote", "", TRUE), Pat("100% remote", "", TRUE),
       Pat("anywhere", "world", TRUE), Pat("location independent", "", TRUE),
       Pat("remote work", "", TRUE), Pat("remote position", "", TRUE),
       Pat("remote role", "", TRUE), Pat("remote opportunity", "", TRUE),
       Pat("remotely", "", TRUE), Pat("from home", "", TRUE) >>

hybrid_patterns ==
    << Pat("hybrid", "", TRUE), Pat("flexible work", "", TRUE),
       Pat("flex", "schedule", TRUE), Pat("work from home", "days", FALSE),
       Pat("remote", "days", FALSE), Pat("office", "days", FALSE),
       Pat("mixed", "remote", TRUE), Pat("part", "remote", FALSE),
       Pat("partly remote", "", TRUE), Pat("flexible location", "", TRUE),
       Pat("hybrid model", "", TRUE), Pat("hybrid work", "", TRUE),
       Pat("remote", "office", FALSE), Pat("office", "remote", FALSE),
       Pat("blended work", "", TRUE) >>

onsite_patterns ==
    << Pat("on-site", "", TRUE), Pat("onsite", "", TRUE), Pat("in-office", "", TRUE),
       Pat("office based", "", TRUE), Pat("office location", "", TRUE),
       Pat("must be located", "", TRUE), Pat("local candidate", "", TRUE),
       Pat("in person", "", TRUE), Pat("physical presence", "", TRUE),
       Pat("commute", "", TRUE), Pat("relocate", "", TRUE),
       Pat("office environment", "", TRUE), Pat("full", "office", FALSE),
       Pat("100% office", "", TRUE), Pat("fully onsite", "", TRUE) >>

\* sum(1 for pattern in patterns if re.search(pattern, text_lower))
PatternScore(patterns, text_lower) ==
    Cardinality({k \in 1..Len(patterns) : Search(patterns[k], text_lower)})

\* mutant: the three dominance tests are skipped
FlexibilityOf_NoDominance(remote_score, hybrid_score, onsite_score) ==
    IF remote_score > 0 /\ hybrid_score > 0 THEN "Hybrid"
    ELSE IF remote_score > 0 THEN "Remote"
    ELSE IF hybrid_score > 0 THEN "Hybrid"
    ELSE IF onsite_score > 0 THEN "On-site"
    ELSE "UNDEFINED"

\* mutant: the remote test comes before the remote-and-hybrid test
FlexibilityOf_RemoteFirst(remote_score, hybrid_score, onsite_score) ==
    IF remote_score > hybrid_score /\ remote_score > onsite_score THEN "Remote"
    ELSE IF hybrid_score > remote_score /\ hybrid_score > onsite_score THEN "Hybrid"
    ELSE IF onsite_score > remote_score /\ onsite_score > hybrid_score THEN "On-site"
    ELSE IF remote_score > 0 THEN "Remote"
    ELSE IF remote_score > 0 /\ hybrid_score > 0 THEN "Hybrid"
    ELSE IF hybrid_score > 0 THEN "Hybrid"
    ELSE IF onsite_score > 0 THEN "On-site"
    ELSE "UNDEFINED"

\* the if/elif chain of lines 82-97
FlexibilityOf(remote_score, hybrid_score, onsite_score) ==
    IF remote_score > hybrid_score /\ remote_score > onsite_score THEN "Remote"
    ELSE IF hybrid_score > remote_score /\ hybrid_score > onsite_score THEN "Hybrid"
    ELSE IF onsite_score > remote_score /\ onsite_score > hybrid_score THEN "On-site"
    ELSE IF remote_score > 0 /\ hybrid_score > 0 THEN "Hybrid"
    ELSE IF remote_score > 0 THEN "Remote"
    ELSE IF hybrid_score > 0 THEN "Hybrid"
    ELSE IF onsite_score > 0 THEN "On-site"
    ELSE "UNDEFINED"

\* lines 77-79 for a text
ScoresOf(text) ==
    LET text_lower == Lower(text)
    IN [remote |-> PatternScore(remote_patterns, text_lower),
        hybrid |-> PatternScore(hybrid_patterns, text_lower),
        onsite |-> PatternScore(onsite_patterns, text_lower)]

detect_job_flexibility(text) ==
    IF text = "" THEN "UNDEFINED"
    ELSE LET sc == ScoresOf(text)
         IN FlexibilityOf(sc.remote, sc.hybrid, sc.onsite)

----------------------------------------------------------------------------
(* extract_job_flexibility (dags/scripts/linkedin_scraper.py) *)

\* the dict of lines 279-283, in its insertion order
flexibility_keywords ==
    << [type |-> "remote",
        keywords |-> <<"remote", "work from home", "wfh", "telecommute">>],
       [type |-> "hybrid",
        keywords |-> <<"hybrid", "flexible", "mix of remote">>],
       [type |-> "on-site",
        keywords |-> <<"on-site", "onsite", "office", "in-person", "in person">>] >>

\* some keyword of entry t is a substring of all_text
KeywordHit(t, all_text) ==
    \E k \in 1..Len(flexibility_keywords[t].keywords) :
        Contains(all_text, flexibility_keywords[t].keywords[k])

\* lines 286-293
extract_job_flexibility(page_text) ==
    LET all_text == Lower(page_text)
        hits == {t \in 1..Len(flexibility_keywords) : KeywordHit(t, all_text)}
    IN IF hits = {} THEN None
       ELSE Title(flexibility_keywords[CHOOSE t \in hits : \A u \in hits : t <= u].type)

----------------------------------------------------------------------------
(* The two classifiers applied to the text of one posting *)

Words == {"Remote", "hybrid", "onsite", "commute", "office", "days"}

RECURSIVE JoinWords(_)
\* " ".join(words)
JoinWords(ws) ==
    IF ws = <<>> THEN ""
    ELSE IF Len(ws) = 1 THEN ws[1]
    ELSE ws[1] \o " " \o JoinWords(Tail(ws))

Texts == {JoinWords(ws) : ws \in SeqsUpTo(Words, MaxWords)}

StoreIdle ==
    /\ batch = <<>>
    /\ df = <<>>
    /\ idx = 0
    /\ pc = "idle"
    /\ tableExists = FALSE
    /\ table = <<>>
    /\ annotated = {}
    /\ inserted = <<>>
    /\ exists0 = FALSE
    /\ table0 = <<>>
    /\ prevDone = FALSE
    /\ runs = 0

InitFlex ==
    /\ StoreIdle
    /\ SecIdle
    /\ SkillIdle
    /\ LocIdle
    /\ text_content \in Texts
    /\ flexibility = "pending"
    /\ page_flexibility = "pending"
    /\ scores = NoScores
    /\ decision = "pending"

\* scraping_script.py line 537
DetectJobFlexibility ==
    /\ flexibility = "pending"
    /\ flexibility' = detect_job_flexibility(text_content)
    /\ scores' = ScoresOf(text_content)
    /\ UNCHANGED <<text_content, page_flexibility, decision, storeVars, secVars, skillVars, locVars>>

\* dags/scripts/linkedin_scraper.py line 381
ExtractJobFlexibility ==
    /\ page_flexibility = "pending"
    /\ page_flexibility' = extract_job_flexibility(text_content)
    /\ UNCHANGED <<text_content, flexibility, scores, decision, storeVars, secVars, skillVars, locVars>>

NextFlex ==
    \/ DetectJobFlexibility
    \/ ExtractJobFlexibility

SpecFlex == InitFlex /\ [][NextFlex]_vars

\* every triple of scores the three families can have
InitScores ==
    /\ StoreIdle
    /\ SecIdle
    /\ SkillIdle
    /\ LocIdle
    /\ text_content = ""
    /\ flexibility = "pending"
    /\ page_flexibility = "pending"
    /\ scores \in [remote : 0..NumPatterns, hybrid : 0..NumPatterns,
                   onsite : 0..NumPatterns]
    /\ decision = "pending"

\* lines 82-97 of detect_job_flexibility
Decide ==
    /\ decision = "pending"
    /\ decision' = FlexibilityOf(scores.remote, scores.hybrid, scores.onsite)
    /\ UNCHANGED <<text_content, flexibility, page_flexibility, scores, storeVars,
                   secVars, skillVars, locVars>>

NextScores == Decide

SpecScores == InitScores /\ [][NextScores]_vars

----------------------------------------------------------------------------
(* More text helpers *)

\* what str.strip() removes and regex \s matches
Whitespace == {" ", "\t", "\n", "\r", "\f"}

RECURSIVE LStrip(_, _)
LStrip(s, cs) ==
    IF s # "" /\ CharAt(s, 1) \in cs THEN LStrip(Tail(s), cs) ELSE s

RECURSIVE RStrip(_, _)
RStrip(s, cs) ==
    IF s # "" /\ CharAt(s, Len(s)) \in cs
    THEN RStrip(SubSeq(s, 1, Len(s) - 1), cs) ELSE s

\* s.strip(cs)
StripChars(s, cs) == RStrip(LStrip(s, cs), cs)

\* s.strip()
Strip(s) == StripChars(s, Whitespace)

RECURSIVE CollapseWhitespace(_)
\* re.sub(r'\s+', ' ', s)
CollapseWhitespace(s) ==
    IF s = "" THEN ""
    ELSE IF CharAt(s, 1) \in Whitespace
         THEN " " \o CollapseWhitespace(LStrip(s, Whitespace))
         ELSE CharAt(s, 1) \o CollapseWhitespace(Tail(s))

MinOf(S) == CHOOSE x \in S : \A y \in S : x <= y
MaxOf(S) == CHOOSE x \in S : \A y \in S : x >= y

RECURSIVE SplitLines(_)
\* s.split('\n'), the empty pieces between adjacent line breaks left out (the
\* callers drop them)
SplitLines(s) ==
    LET breaks == {j \in 1..Len(s) : CharAt(s, j) = "\n"}
    IN IF breaks = {} THEN <<s>>
       ELSE <<SubSeq(s, 1, MinOf(breaks) - 1)>>
                \o SplitLines(LStrip(SubSeq(s, MinOf(breaks), Len(s)), {"\n"}))

RECURSIVE SplitBlankLines(_)
\* re.split(r'\n{2,}', s)
SplitBlankLines(s) ==
    LET gaps == {j \in 1..(Len(s) - 1) : CharAt(s, j) = "\n" /\ CharAt(s, j + 1) = "\n"}
    IN IF gaps = {} THEN <<s>>
       ELSE <<SubSeq(s, 1, MinOf(gaps) - 1)>>
                \o SplitBlankLines(LStrip(SubSeq(s, MinOf(gaps), Len(s)), {"\n"}))

\* [b.strip() for b in pieces if b.strip()]
StrippedNonEmpty(pieces) ==
    SelectSeq([i \in 1..Len(pieces) |-> Strip(pieces[i])], LAMBDA b : b # "")

RECURSIVE JoinWith(_, _)
\* sep.join(parts)
JoinWith(parts, sep) ==
    IF parts = <<>> THEN ""
    ELSE IF Len(parts) = 1 THEN parts[1]
    ELSE parts[1] \o sep \o JoinWith(Tail(parts), sep)

----------------------------------------------------------------------------
(* The heading patterns of extract_job_sections_improved.  A pattern is the
   sequence of its alternatives in the order the regex engine tries them; an
   alternative is a sequence of tokens: a lower-case literal or one of the
   tokens below.  All patterns are anchored with ^ and compiled with re.I. *)

WS1 == "<s+>"
WS0 == "<s*>"
WB == "<b>"
EOS == "<$>"
OPTCOLON == "<:?>"
ANY20 == "<.{1,20}>"

Each(lits, suffix) == [k \in 1..Len(lits) |-> <<lits[k]>> \o suffix]

Cross(as, mid, bs) ==
    [k \in 1..(Len(as) * Len(bs)) |->
        <<as[((k - 1) \div Len(bs)) + 1]>> \o mid \o <<bs[((k - 1) % Len(bs)) + 1]>>]

\* (pre)? in front of every alternative: with pre first, then without
WithOpt(pre, alts) == [k \in 1..Len(alts) |-> pre \o alts[k]] \o alts

SectionWords == <<"skills", "qualifications", "requirements", "experience">>

major_heading_patterns ==
    WithOpt(<<"job", WS1>>,
            Each(<<"responsibilities", "qualifications", "requirements", "duties",
                   "skills", "experience">>, <<>>)
            \o << <<"what you", ANY20, "do">> >>
            \o Each(<<"key responsibilities", "primary duties", "job requirements",
                      "role responsibilities">>, <<>>))
    \o Cross(<<"essential", "minimum", "required", "basic", "must have">>,
             <<WS1>>, SectionWords)
    \o Cross(<<"preferred", "desired", "nice to have", "additional", "bonus">>,
             <<WS1>>, SectionWords)
    \o Cross(<<"about", "company", "organization">>, <<WS1, "the", WS1>>,
             <<"role", "position", "job", "company", "organization", "team", "us">>)
    \o Cross(<<"about", "company", "organization">>, <<WS1>>,
             <<"role", "position", "job", "company", "organization", "team", "us">>)
    \o WithOpt(<<"job", WS1>>, Each(<<"description", "summary", "overview">>, <<>>))
    \o Cross(<<"technical", "core", "main">>, <<WS1>>,
             <<"skills", "requirements", "responsibilities">>)

company_heading_patterns ==
    Each(<<"company", "about", "organization", "who are we", "about us",
           "our company", "the company", "about the company">>, <<WB>>)
    \o WithOpt(<<"company", WS1>>,
               Each(<<"overview", "description", "profile", "background",
                      "information">>, <<>>))
    \o WithOpt(<<"who", WS1>>, Each(<<"we are", "we are">>, <<>>))
    \o WithOpt(<<"our", WS1>>,
               Each(<<"mission", "vision", "values", "culture", "story",
                      "background">>, <<>>))

required_patterns ==
    Cross(<<"required", "essential", "minimum", "must have", "basic", "mandatory">>,
          <<WS0>>, <<"qualifications", "skills", "requirements", "experience">>)
    \o WithOpt(<<"you", WS1>>,
               Each(<<"must", "should", "need to">>, <<WS1, "have">>))
    \o Cross(<<"minimum", "required">>, <<WS0>>, <<"requirements", "qualifications">>)
    \o << <<WS0, "requirements", WS0, OPTCOLON, WS0, EOS>> >>
    \o << <<WS0, "qualifications", WS0, OPTCOLON, WS0, EOS>> >>

preferred_patterns ==
    Cross(<<"preferred", "desired", "nice to have", "bonus", "additional", "plus",
            "would be great">>,
          <<WS0>>, <<"qualifications", "skills", "requirements", "experience">>)
    \o Cross(<<"it would be", "would be">>, <<WS1>>, <<"nice", "great", "a plus">>)
    \o Cross(<<"bonus", "plus">>, <<WS1>>, <<"points", "if you">>)
    \o Cross(<<"preferred", "desired">>, <<WS0>>, <<"requirements", "qualifications">>)

\* length of the run of whitespace behind the first pos characters
WhitespaceRun(sl, pos) ==
    MaxOf({k \in 0..(Len(sl) - pos) :
              \A m \in 1..k : CharAt(sl, pos + m) \in Whitespace})

\* regex \b between the first pos characters and the rest
WordBoundaryAt(sl, pos) ==
    (pos >= 1 /\ IsWordChar(CharAt(sl, pos)))
        # (pos < Len(sl) /\ IsWordChar(CharAt(sl, pos + 1)))

RECURSIVE MatchFrom(_, _, _)
\* the end of the match of the tokens behind the first pos characters of sl,
\* or -1 when they do not match there
MatchFrom(tokens, sl, pos) ==
    IF tokens = <<>> THEN pos
    ELSE LET t == Head(tokens)
             rest == Tail(tokens)
         IN CASE t = WS1 ->
                    IF WhitespaceRun(sl, pos) = 0 THEN -1
                    ELSE MatchFrom(rest, sl, pos + WhitespaceRun(sl, pos))
              [] t = WS0 -> MatchFrom(rest, sl, pos + WhitespaceRun(sl, pos))
              [] t = WB -> IF WordBoundaryAt(sl, pos) THEN MatchFrom(rest, sl, pos) ELSE -1
              [] t = EOS ->
                    IF pos = Len(sl) \/ (pos = Len(sl) - 1 /\ CharAt(sl, Len(sl)) = "\n")
                    THEN MatchFrom(rest, sl, pos) ELSE -1
              [] t = OPTCOLON ->
                    IF LitAt(sl, pos + 1, ":") /\ MatchFrom(rest, sl, pos + 1) # -1
                    THEN MatchFrom(rest, sl, pos + 1)
                    ELSE MatchFrom(rest, sl, pos)
              [] t = ANY20 ->
                    LET ks == {k \in 1..20 :
                                  /\ pos + k <= Len(sl)
                                  /\ NoLineBreak(sl, pos + 1, pos + k)
                                  /\ MatchFrom(rest, sl, pos + k) # -1}
                    IN IF ks = {} THEN -1 ELSE MatchFrom(rest, sl, pos + MaxOf(ks))
              [] OTHER ->
                    IF LitAt(sl, pos + 1, t) THEN MatchFrom(rest, sl, pos + Len(t))
                    ELSE -1

\* match.end() of pattern_re.search(block), or -1 when search returns None
SearchEnd(patterns, block) ==
    LET sl == Lower(block)
        hits == {k \in 1..Len(patterns) : MatchFrom(patterns[k], sl, 0) # -1}
    IN IF hits = {} THEN -1 ELSE MatchFrom(patterns[MinOf(hits)], sl, 0)

Matches(patterns, block) == SearchEnd(patterns, block) # -1

----------------------------------------------------------------------------
(* extract_job_sections_improved (scraping_script.py) *)

MinInitialBlocks == 5
MinBlockLen == 10
CompanyAfterLen == 20
CompanyMaxCollected == 3
CompanyScanBlocks == 10
CompanyMinKeywords == 2
CompanyMinLen == 50
RequiredAfterLen == 15
RequiredMaxCollected == 5
RequiredMinKeywords == 2
RequiredMinLen == 30
PreferredAfterLen == 15
PreferredMaxCollected == 5
PreferredMinLen == 30

\* the characters of strip(" :\t\n-...") that an ASCII text can hold
HeadingTrim == {" ", ":", "\t", "\n", "-"}

\* InitialBlocks with the pieces counted after the length filter
InitialBlocks_CountAfterFilter(text) ==
    LET by_blank == StrippedNonEmpty(SplitBlankLines(text))
    IN IF Len(SelectSeq(by_blank, LAMBDA b : Len(b) > MinBlockLen)) < MinInitialBlocks
       THEN StrippedNonEmpty(SplitLines(text))
       ELSE by_blank

\* lines 113-118
InitialBlocks(text) ==
    LET by_blank == StrippedNonEmpty(SplitBlankLines(text))
    IN IF Len(by_blank) < MinInitialBlocks
       THEN StrippedNonEmpty(SplitLines(text))
       ELSE by_blank

\* lines 120-126
SegmentBlocks(text) ==
    LET kept == SelectSeq(InitialBlocks(text), LAMBDA b : Len(b) > MinBlockLen)
    IN [i \in 1..Len(kept) |-> CollapseWhitespace(kept[i])]

IsMajorHeading(block) == Matches(major_heading_patterns, block)

RECURSIVE FirstHeadingIdx(_, _)
\* the loop of lines 167-171 from block i on; 0 stands for None
FirstHeadingIdx(bs, i) ==
    IF i > Len(bs) THEN 0
    ELSE IF IsMajorHeading(bs[i]) THEN i
    ELSE FirstHeadingIdx(bs, i + 1)

\* mutant: the slice keeps the heading block
IntroBlocks_WithHeading(bs) ==
    IF FirstHeadingIdx(bs, 1) = 0 THEN bs
    ELSE SubSeq(bs, 1, FirstHeadingIdx(bs, 1))

\* line 173
IntroBlocks(bs) ==
    IF FirstHeadingIdx(bs, 1) = 0 THEN bs
    ELSE SubSeq(bs, 1, FirstHeadingIdx(bs, 1) - 1)

\* lines 174-175
JobDescription(bs) ==
    LET intro_text == Strip(JoinWith(IntroBlocks(bs), " "))
    IN IF intro_text # "" THEN intro_text ELSE None

\* block[match.end():].strip(" :\t\n-...")
AfterHeading(patterns, block) ==
    StripChars(SubSeq(block, SearchEnd(patterns, block) + 1, Len(block)), HeadingTrim)

\* sum(1 for keyword in keywords if keyword in lower_block)
KeywordCount(keywords, block) ==
    Cardinality({k \in 1..Len(keywords) : Contains(Lower(block), keywords[k])})

\* the block at which a fallback loop breaks, or None
FirstOrNone(candidates) == IF candidates = <<>> THEN None ELSE candidates[1]

RECURSIVE CollectCompany(_, _, _)
\* the while loop of lines 194-202
CollectCompany(bs, j, content_blocks) ==
    IF j > Len(bs) THEN content_blocks
    ELSE IF \/ IsMajorHeading(bs[j])
            \/ Matches(company_heading_patterns, bs[j])
            \/ Len(content_blocks) > CompanyMaxCollected
         THEN content_blocks
         ELSE CollectCompany(bs, j + 1, Append(content_blocks, bs[j]))

RECURSIVE CompanyFromHeading(_, _)
\* the for loop of lines 181-206 from block i on
CompanyFromHeading(bs, i) ==
    IF i > Len(bs) THEN None
    ELSE IF ~Matches(company_heading_patterns, bs[i]) THEN CompanyFromHeading(bs, i + 1)
    ELSE LET after_heading == AfterHeading(company_heading_patterns, bs[i])
             content_blocks == CollectCompany(bs, i + 1, <<>>)
         IN IF after_heading # "" /\ Len(after_heading) > CompanyAfterLen
            THEN after_heading
            ELSE IF content_blocks # <<>> THEN Strip(JoinWith(content_blocks, " "))
            ELSE CompanyFromHeading(bs, i + 1)

company_keywords ==
    <<"founded", "established", "leading", "industry", "mission", "vision",
      "values", "culture", "team", "employees", "global", "international",
      "headquarters", "based in", "specialize", "focus on", "dedicated to">>

\* lines 209-223
CompanyFromKeywords(bs) ==
    FirstOrNone(SelectSeq(SubSeq(bs, 1, IF Len(bs) < CompanyScanBlocks THEN Len(bs)
                                        ELSE CompanyScanBlocks),
                    LAMBDA b : /\ KeywordCount(company_keywords, b) >= CompanyMinKeywords
                               /\ Len(b) > CompanyMinLen))

\* lines 178-223
CompanyDescription(bs) ==
    IF CompanyFromHeading(bs, 1) # None THEN CompanyFromHeading(bs, 1)
    ELSE CompanyFromKeywords(bs)

RECURSIVE CollectRequired(_, _, _)
\* the while loop of lines 240-247
CollectRequired(bs, j, content_blocks) ==
    IF ~(j <= Len(bs) /\ Len(content_blocks) < RequiredMaxCollected) THEN content_blocks
    ELSE IF \/ IsMajorHeading(bs[j])
            \/ Matches(required_patterns, bs[j])
            \/ Matches(preferred_patterns, bs[j])
         THEN content_blocks
         ELSE CollectRequired(bs, j + 1, Append(content_blocks, bs[j]))

RECURSIVE RequiredFromHeading(_, _)
\* the for loop of lines 228-251 from block i on
RequiredFromHeading(bs, i) ==
    IF i > Len(bs) THEN None
    ELSE IF ~Matches(required_patterns, bs[i]) THEN RequiredFromHeading(bs, i + 1)
    ELSE LET after_heading == AfterHeading(required_patterns, bs[i])
             content_blocks == CollectRequired(bs, i + 1, <<>>)
         IN IF after_heading # "" /\ Len(after_heading) > RequiredAfterLen
            THEN after_heading
            ELSE IF content_blocks # <<>> THEN Strip(JoinWith(content_blocks, " "))
            ELSE RequiredFromHeading(bs, i + 1)

requirement_keywords ==
    <<"bachelor", "master", "degree", "years of experience", "experience in",
      "proficient", "knowledge of", "familiar with", "understanding of",
      "ability to", "must have", "required", "necessary">>

\* mutant: one requirement keyword is enough
RequiredFromKeywords_OneKeyword(bs) ==
    FirstOrNone(SelectSeq(bs,
                    LAMBDA b : /\ KeywordCount(requirement_keywords, b) >= 1
                               /\ Len(b) > RequiredMinLen))

\* lines 254-267
RequiredFromKeywords(bs) ==
    FirstOrNone(SelectSeq(bs,
                    LAMBDA b : /\ KeywordCount(requirement_keywords, b) >= RequiredMinKeywords
                               /\ Len(b) > RequiredMinLen))

\* lines 226-267
RequiredQualifications(bs) ==
    IF RequiredFromHeading(bs, 1) # None THEN RequiredFromHeading(bs, 1)
    ELSE RequiredFromKeywords(bs)

RECURSIVE CollectPreferred(_, _, _)
\* the while loop of lines 283-289
CollectPreferred(bs, j, content_blocks) ==
    IF ~(j <= Len(bs) /\ Len(content_blocks) < PreferredMaxCollected) THEN content_blocks
    ELSE IF IsMajorHeading(bs[j]) \/ Matches(preferred_patterns, bs[j])
         THEN content_blocks
         ELSE CollectPreferred(bs, j + 1, Append(content_blocks, bs[j]))

RECURSIVE PreferredFromHeading(_, _)
\* the for loop of lines 272-293 from block i on
PreferredFromHeading(bs, i) ==
    IF i > Len(bs) THEN None
    ELSE IF ~Matches(preferred_patterns, bs[i]) THEN PreferredFromHeading(bs, i + 1)
    ELSE LET after_heading == AfterHeading(preferred_patterns, bs[i])
             content_blocks == CollectPreferred(bs, i + 1, <<>>)
         IN IF after_heading # "" /\ Len(after_heading) > PreferredAfterLen
            THEN after_heading
            ELSE IF content_blocks # <<>> THEN Strip(JoinWith(content_blocks, " "))
            ELSE PreferredFromHeading(bs, i + 1)

preferred_keywords ==
    <<"preferred", "desired", "nice to have", "bonus", "plus", "would be great",
      "additional experience", "advantageous">>

\* lines 296-306
PreferredFromKeywords(bs) ==
    FirstOrNone(SelectSeq(bs,
                    LAMBDA b : /\ KeywordCount(preferred_keywords, b) >= 1
                               /\ Len(b) > PreferredMinLen))

\* lines 270-306
PreferredQualifications(bs) ==
    IF PreferredFromHeading(bs, 1) # None THEN PreferredFromHeading(bs, 1)
    ELSE PreferredFromKeywords(bs)

\* the four values returned at line 308
extract_job_sections_improved(text) ==
    LET bs == SegmentBlocks(text)
    IN [state |-> "returned",
        job_description |-> JobDescription(bs),
        company_description |-> CompanyDescription(bs),
        required_qualifications |-> RequiredQualifications(bs),
        preferred_qualifications |-> PreferredQualifications(bs)]

----------------------------------------------------------------------------
(* extract_job_sections_improved applied to the text of one description *)

\* text nodes of a description, which get_text("\n", strip=True) joins; the last
\* one holds blank lines of its own
Pieces ==
    { "We build  data tools",
      "Responsibilities: own the roadmap",
      "Apply now",
      "About the Team",
      "Requirements:",
      "JOB SUMMARY",
      "Nice to have: kubernetes and terraform",
      "Who we are\n\nA global team\n\nBased in Cairo" }

SectionTexts == {JoinWith(ps, "\n") : ps \in SeqsUpTo(Pieces, MaxPieces)}

InitSections ==
    /\ StoreIdle
    /\ FlexIdle
    /\ SkillIdle
    /\ LocIdle
    /\ full_text \in SectionTexts
    /\ blocks = <<>>
    /\ sections = NoSections

\* scraping_script.py line 508
ExtractJobSections ==
    /\ sections.state = "pending"
    /\ blocks' = SegmentBlocks(full_text)
    /\ sections' = extract_job_sections_improved(full_text)
    /\ UNCHANGED <<full_text, storeVars, flexVars, skillVars, locVars>>

NextSections == ExtractJobSections

SpecSections == InitSections /\ [][NextSections]_vars

\* text nodes that bring section headings, keyword blocks and plain blocks
\* together; the last one is three plain lines
HeadingPieces ==
    { "Requirements:",
      "Nice to Have Skills",
      "Bachelor degree and 3 years of experience",
      "Nice to have: kubernetes and terraform",
      "Our mission is data",
      "We build tools, no degree is needed",
      "First plain line\nSecond plain line\nThird plain line" }

HeadingTexts == {JoinWith(ps, "\n") : ps \in SeqsUpTo(HeadingPieces, MaxPieces)}

InitHeadings ==
    /\ StoreIdle
    /\ FlexIdle
    /\ SkillIdle
    /\ LocIdle
    /\ full_text \in HeadingTexts
    /\ blocks = <<>>
    /\ sections = NoSections

SpecHeadings == InitHeadings /\ [][NextSections]_vars

\* text nodes with runs of whitespace inside them, of lengths on both sides of
\* MinBlockLen before and after the runs are collapsed
SpacingPieces ==
    { "Apply   now",
      "Join \t our team",
      "We build  data tools",
      "Senior  role",
      "Remote",
      "Data engineer" }

SpacingTexts == {JoinWith(ps, "\n") : ps \in SeqsUpTo(SpacingPieces, MaxPieces)}

InitSpacing ==
    /\ StoreIdle
    /\ FlexIdle
    /\ SkillIdle
    /\ LocIdle
    /\ full_text \in SpacingTexts
    /\ blocks = <<>>
    /\ sections = NoSections

SpecSpacing == InitSpacing /\ [][NextSections]_vars

----------------------------------------------------------------------------
(* should_remove (dags/scripts/data_enrichment.py) *)

BLACKLIST ==
    { "e (programming language)", "library for www in perl",
      "component object model (com)", "hostile work environment", "sage safe x3",
      "inquiry", "workflows", "flooring", "target 3001!" }

\* mutant: the name is trimmed but not lower-cased
should_remove_NoLower(skill_name, desc) ==
    LET s == Strip(skill_name)
        context == Lower(desc)
    IN IF s \in BLACKLIST THEN TRUE
       ELSE IF s \in {"r", "c"}
            THEN IF s = "r" /\ (Contains(context, "r programming") \/ Contains(context, "rstudio"))
                 THEN FALSE
                 ELSE IF s = "c" /\ (\/ Contains(context, "c programming")
                                     \/ Contains(context, "embedded c")
                                     \/ Contains(context, "c++"))
                      THEN FALSE
                      ELSE TRUE
            ELSE Len(s) <= 2

\* mutant: the context phrases are looked up in the text as it is written
should_remove_ContextAsWritten(skill_name, desc) ==
    LET s == Strip(Lower(skill_name))
        context == desc
    IN IF s \in BLACKLIST THEN TRUE
       ELSE IF s \in {"r", "c"}
            THEN IF s = "r" /\ (Contains(context, "r programming") \/ Contains(context, "rstudio"))
                 THEN FALSE
                 ELSE IF s = "c" /\ (\/ Contains(context, "c programming")
                                     \/ Contains(context, "embedded c")
                                     \/ Contains(context, "c++"))
                      THEN FALSE
                      ELSE TRUE
            ELSE Len(s) <= 2

\* lines 9-27
should_remove(skill_name, desc) ==
    LET s == Strip(Lower(skill_name))
        context == Lower(desc)
    IN IF s \in BLACKLIST THEN TRUE
       ELSE IF s \in {"r", "c"}
            THEN IF s = "r" /\ (Contains(context, "r programming") \/ Contains(context, "rstudio"))
                 THEN FALSE
                 ELSE IF s = "c" /\ (\/ Contains(context, "c programming")
                                     \/ Contains(context, "embedded c")
                                     \/ Contains(context, "c++"))
                      THEN FALSE
                      ELSE TRUE
            ELSE Len(s) <= 2

\* characters of the short skill names
NameChars == {"r", "c", "R", "g", " ", "+"}

\* skill names of the taxonomy: every short name and some longer ones
SkillNames ==
    {JoinWith(cs, "") : cs \in SeqsUpTo(NameChars, MaxNameLen)}
        \cup {"Inquiry", " inquiry ", "WORKFLOWS", "Target 3001!", "Python",
              "inquiry skills", "Go"}

\* job descriptions
RemoveDescs ==
    { "", "We use RStudio daily", "R Programming", "Embedded C firmware",
      "c++ and python", "C programming in Linux", "An inquiry about data" }

InitRemove ==
    /\ StoreIdle
    /\ FlexIdle
    /\ SecIdle
    /\ \E n \in SkillNames, d \in RemoveDescs :
          removal = [state |-> "pending", skill_name |-> n, desc |-> d, result |-> FALSE]
    /\ skill_doc = [desc |-> "", sentences |-> <<>>]
    /\ out1 = NoOutput
    /\ out2 = NoOutput
    /\ LocIdle

\* lines 81 and 85: should_remove(skill_name, job_description)
ShouldRemove ==
    /\ removal.state = "pending"
    /\ removal' = [removal EXCEPT !.state = "returned",
                                  !.result = should_remove(removal.skill_name, removal.desc)]
    /\ UNCHANGED <<skill_doc, out1, out2, storeVars, flexVars, secVars, locVars>>

NextRemove == ShouldRemove

SpecRemove == InitRemove /\ [][NextRemove]_vars

----------------------------------------------------------------------------
(* The annotation loop of main_enrichment for one row (lines 71-98) *)

\* ids of the taxonomy
SkillIds == {"KS_PYTHON", "KS_R", "KS_TEAMWORK", "KS_INQUIRY", "KS_CERT"}

\* skillNer's SKILL_DB: id -> skill_name, skill_type
SKILL_DB ==
    [id \in SkillIds |->
        CASE id = "KS_PYTHON" -> [skill_name |-> "Python", skill_type |-> "Hard Skill"]
          [] id = "KS_R" -> [skill_name |-> "R", skill_type |-> "Hard Skill"]
          [] id = "KS_TEAMWORK" -> [skill_name |-> "Teamwork", skill_type |-> "Soft Skill"]
          [] id = "KS_INQUIRY" -> [skill_name |-> "Inquiry", skill_type |-> "Soft Skill"]
          [] id = "KS_CERT" ->
                [skill_name |-> "AWS Certified Developer", skill_type |-> "Certification"]]

SkillDescs == {"We use RStudio and Python", "Handle each customer inquiry"}

\* annotations['results'][kind] of one sentence: no match or one match
MatchLists == {<<>>} \cup {<<id>> : id \in SkillIds}

\* a sentence of doc.sents: whether has_trigger or is_task_sentence holds for
\* it and, if so, what skill_extractor.annotate returns for it
Sentence ==
    {[eligible |-> TRUE, full_matches |-> f, ngram_scored |-> g] :
        f \in MatchLists, g \in MatchLists}
    \cup {[eligible |-> FALSE, full_matches |-> <<>>, ngram_scored |-> <<>>]}

RangeOf(seq) == {seq[i] : i \in 1..Len(seq)}

\* should_remove(skill_name, job_description) for every skill of the taxonomy and
\* every description
ShouldRemoveOf ==
    [desc \in SkillDescs |->
        [id \in SkillIds |-> should_remove(SKILL_DB[id].skill_name, desc)]]

\* the ids of matches that pass "if not should_remove(skill_name, job_description)"
KeptOf(matches, desc) == SelectSeq(matches, LAMBDA id : ~ShouldRemoveOf[desc][id])

RECURSIVE FullMatchesOf(_, _)
\* full_matches after the loop of lines 77-87
FullMatchesOf(sentences, desc) ==
    IF sentences = <<>> THEN <<>>
    ELSE (IF Head(sentences).eligible
          THEN KeptOf(Head(sentences).full_matches, desc) ELSE <<>>)
         \o FullMatchesOf(Tail(sentences), desc)

RECURSIVE NgramScoredOf(_, _)
\* ngram_scored after the loop of lines 77-87
NgramScoredOf(sentences, desc) ==
    IF sentences = <<>> THEN <<>>
    ELSE (IF Head(sentences).eligible
          THEN KeptOf(Head(sentences).ngram_scored, desc) ELSE <<>>)
         \o NgramScoredOf(Tail(sentences), desc)

\* set(full_matches + ngram_scored)
SurvivingIds(sentences, desc) ==
    RangeOf(FullMatchesOf(sentences, desc) \o NgramScoredOf(sentences, desc))

RECURSIVE IterationOrders(_)
\* the orders in which a set of str can be iterated: the order follows the
\* hashes of the ids, which differ from one interpreter process to the next
IterationOrders(ids) ==
    IF ids = {} THEN {<<>>}
    ELSE UNION {{<<x>> \o rest : rest \in IterationOrders(ids \ {x})} : x \in ids}

\* the positions of the sentences that line 79 hands to skill_extractor.annotate
AnnotateCalls(sentences) ==
    SelectSeq([i \in 1..Len(sentences) |-> i], LAMBDA i : sentences[i].eligible)

NamesOfType(order, type) ==
    LET of_type == SelectSeq(order, LAMBDA id : SKILL_DB[id].skill_type = type)
    IN [i \in 1..Len(of_type) |-> SKILL_DB[of_type[i]].skill_name]

\* lines 71-98 for one row, the set being iterated in the given order
AnnotateRow(desc, sentences, order) ==
    [state |-> "returned",
     sentences |-> sentences,
     annotate_calls |-> AnnotateCalls(sentences),
     hard_skills |-> NamesOfType(order, "Hard Skill"),
     soft_skills |-> NamesOfType(order, "Soft Skill"),
     hard_column |-> JoinWith(NamesOfType(order, "Hard Skill"), ", "),
     soft_column |-> JoinWith(NamesOfType(order, "Soft Skill"), ", ")]

RECURSIVE EachRepeated(_)
\* the sentences of a description that says every sentence twice
EachRepeated(sentences) ==
    IF sentences = <<>> THEN <<>>
    ELSE <<Head(sentences), Head(sentences)>> \o EachRepeated(Tail(sentences))

InitSkills ==
    /\ StoreIdle
    /\ FlexIdle
    /\ SecIdle
    /\ removal = NoRemoval
    /\ skill_doc \in [desc : SkillDescs, sentences : SeqsUpTo(Sentence, MaxSents)]
    /\ out1 = NoOutput
    /\ out2 = NoOutput
    /\ LocIdle

\* the loop body of lines 71-98 for the row
AnnotateDocument ==
    /\ out1.state = "pending"
    /\ \E order \in IterationOrders(SurvivingIds(skill_doc.sentences, skill_doc.desc)) :
          out1' = AnnotateRow(skill_doc.desc, skill_doc.sentences, order)
    /\ UNCHANGED <<removal, skill_doc, out2, storeVars, flexVars, secVars, locVars>>

\* a second run of main_enrichment over the same row
AnnotateAgain ==
    /\ out1.state = "returned"
    /\ out2.state = "pending"
    /\ \E order \in IterationOrders(SurvivingIds(skill_doc.sentences, skill_doc.desc)) :
          out2' = AnnotateRow(skill_doc.desc, skill_doc.sentences, order)
    /\ UNCHANGED <<removal, skill_doc, out1, storeVars, flexVars, secVars, locVars>>

\* a run over the row with every sentence of its description repeated
AnnotateRepeated ==
    /\ out1.state = "returned"
    /\ out2.state = "pending"
    /\ \E order \in IterationOrders(SurvivingIds(EachRepeated(skill_doc.sentences),
                                                 skill_doc.desc)) :
          out2' = AnnotateRow(skill_doc.desc, EachRepeated(skill_doc.sentences), order)
    /\ UNCHANGED <<removal, skill_doc, out1, storeVars, flexVars, secVars, locVars>>

NextSkills == AnnotateDocument \/ AnnotateAgain \/ AnnotateRepeated

SpecSkills == InitSkills /\ [][NextSkills]_vars

----------------------------------------------------------------------------
(* The relevance gate of main_enrichment (lines 33-56, 78) *)

\* lines 33-37
seed_triggers ==
    <<"proficient", "experience", "skills", "required", "knowledge", "expertise",
      "purpose", "ability", "qualifications", "role", "responsible", "duties",
      "looking", "seeking", "task", "candidate", "ability">>

\* line 39, in hundredths
similarity_threshold == 75

\* token.similarity(seed) in hundredths for a token close to one seed only
SimilarityTo(seed, value) ==
    [i \in 1..Len(seed_triggers) |-> IF seed_triggers[i] = seed THEN value ELSE 10]

\* tokens as spaCy describes them: has_vector, similarity to every seed, pos_,
\* dep_ and tag_
TokPlain ==
    [has_vector |-> TRUE, similarity |-> SimilarityTo("", 0),
     pos |-> "NOUN", dep |-> "nsubj", tag |-> "NN"]
TokTrigger == [TokPlain EXCEPT !.similarity = SimilarityTo("skills", similarity_threshold)]
TokNear == [TokPlain EXCEPT !.similarity = SimilarityTo("skills", similarity_threshold - 1)]
TokNoVector ==
    [TokPlain EXCEPT !.has_vector = FALSE,
                     !.similarity = [i \in 1..Len(seed_triggers) |-> 0]]
TokRootVerb == [TokPlain EXCEPT !.pos = "VERB", !.dep = "ROOT", !.tag = "VB"]
TokConjVerb == [TokPlain EXCEPT !.pos = "VERB", !.dep = "conj", !.tag = "VB"]
TokGerund == [TokPlain EXCEPT !.pos = "VERB", !.dep = "xcomp", !.tag = "VBG"]
TokOtherVerb == [TokPlain EXCEPT !.pos = "VERB", !.dep = "xcomp", !.tag = "VB"]
TokAuxRoot == [TokPlain EXCEPT !.pos = "AUX", !.dep = "ROOT", !.tag = "VBZ"]

\* has_trigger with a strict comparison
has_trigger_Strict(sentence_doc) ==
    \E i \in 1..Len(sentence_doc) :
        /\ sentence_doc[i].has_vector
        /\ \E k \in 1..Len(seed_triggers) :
              sentence_doc[i].similarity[k] > similarity_threshold

\* lines 41-48
has_trigger(sentence_doc) ==
    \E i \in 1..Len(sentence_doc) :
        /\ sentence_doc[i].has_vector
        /\ \E k \in 1..Len(seed_triggers) :
              sentence_doc[i].similarity[k] >= similarity_threshold

\* is_task_sentence looking at every token of the sentence
is_task_sentence_AnyToken(sentence_doc) ==
    \E i \in 1..Len(sentence_doc) :
        /\ sentence_doc[i].pos = "VERB"
        /\ sentence_doc[i].dep \in {"ROOT", "conj"} \/ sentence_doc[i].tag = "VBG"

\* lines 50-56: sentence_doc[:2]
is_task_sentence(sentence_doc) ==
    \E i \in 1..MinOf({2, Len(sentence_doc)}) :
        \/ sentence_doc[i].pos = "VERB" /\ sentence_doc[i].dep \in {"ROOT", "conj"}
        \/ sentence_doc[i].pos = "VERB" /\ sentence_doc[i].tag = "VBG"

\* the token sequences of the sentences
GateTokens ==
    { <<TokPlain>>, <<TokTrigger>>, <<TokNear>>, <<TokNoVector>>,
      <<TokPlain, TokPlain, TokTrigger>>,
      <<TokRootVerb>>, <<TokPlain, TokConjVerb>>, <<TokGerund, TokPlain>>,
      <<TokPlain, TokPlain, TokRootVerb>>, <<TokOtherVerb, TokPlain>>,
      <<TokAuxRoot, TokPlain>> }

\* what skill_extractor.annotate returns for a sentence when it is asked
GateMatches == {<<>>, <<"KS_PYTHON">>, <<"KS_TEAMWORK">>}

\* a sentence of doc.sents: its tokens and the annotator's answer for its text
GateSentence == [tokens : GateTokens, full_matches : GateMatches, ngram_scored : {<<>>}]

\* lines 78-79: the annotator is asked when has_trigger or is_task_sentence holds
Gated(sentence) ==
    LET eligible == has_trigger(sentence.tokens) \/ is_task_sentence(sentence.tokens)
    IN [eligible |-> eligible,
        full_matches |-> IF eligible THEN sentence.full_matches ELSE <<>>,
        ngram_scored |-> IF eligible THEN sentence.ngram_scored ELSE <<>>]

GatedAll(sentences) == [i \in 1..Len(sentences) |-> Gated(sentences[i])]

InitGate ==
    /\ StoreIdle
    /\ FlexIdle
    /\ SecIdle
    /\ LocIdle
    /\ removal = NoRemoval
    /\ skill_doc \in [desc : {"We use RStudio and Python"},
                       sentences : SeqsUpTo(GateSentence, MaxSents)]
    /\ out1 = NoOutput
    /\ out2 = NoOutput

\* the loop body of lines 71-98 for the row, the gate of line 78 included
AnnotateGated ==
    /\ out1.state = "pending"
    /\ LET sentences == GatedAll(skill_doc.sentences)
       IN \E order \in IterationOrders(SurvivingIds(sentences, skill_doc.desc)) :
             out1' = AnnotateRow(skill_doc.desc, sentences, order)
    /\ UNCHANGED <<removal, skill_doc, out2, storeVars, flexVars, secVars, locVars>>

NextGate == AnnotateGated

SpecGate == InitGate /\ [][NextGate]_vars

----------------------------------------------------------------------------
(* is_company_name, is_valid_location and extract_location
   (dags/scripts/linkedin_scraper.py) *)

CompanyUpperLen == 3
LocationMinLen == 2
MinLocationTextLen == 2
MinLineLen == 3
MaxMentionLen == 50

\* re.search(r'\b(w1|w2|...)\b', s)
WordSearch(words, s) == \E w \in words : Search(Pat(w, "", FALSE), s)

company_indicators ==
    << {"inc", "llc", "ltd", "corp", "corporation", "company", "group",
        "technologies", "solutions", "systems", "services", "consulting",
        "holdings", "enterprises", "international", "global", "associates",
        "partners"},
       {"tech", "software", "digital", "cyber", "cloud", "data", "analytics", "ai",
        "ml", "fintech", "biotech", "pharma", "healthcare", "medical", "financial",
        "insurance", "banking", "retail", "logistics", "manufacturing"},
       {"startup", "firm", "agency", "studio", "lab", "labs", "research",
        "development", "innovation", "ventures", "capital"} >>

\* r'\b(remote|hybrid|on-?site)\b'
flexibility_markers == {"remote", "hybrid", "onsite", "on-site"}

\* str.isupper(): a cased character and no lower-case one
IsUpper(text) ==
    /\ \E i \in 1..Len(text) : CharAt(text, i) \in UpperSet
    /\ \A i \in 1..Len(text) : CharAt(text, i) \notin LowerSet

\* the end of [A-Z][a-z]+ at position i, or 0
TitleWordEnd(text, i) ==
    IF /\ i + 1 <= Len(text)
       /\ CharAt(text, i) \in UpperSet
       /\ CharAt(text, i + 1) \in LowerSet
    THEN MaxOf({e \in (i + 1)..Len(text) :
                   \A k \in (i + 1)..e : CharAt(text, k) \in LowerSet})
    ELSE 0

RECURSIVE TitleWordsFrom(_, _, _)
\* [A-Z][a-z]+( [A-Z][a-z]+)*$ from position i, after n words
TitleWordsFrom(text, i, n) ==
    LET e == TitleWordEnd(text, i)
    IN IF e = 0 THEN FALSE
       ELSE IF e = Len(text) THEN n + 1 >= 2
       ELSE IF CharAt(text, e + 1) = " " THEN TitleWordsFrom(text, e + 2, n + 1)
       ELSE FALSE

\* re.search(r'^[A-Z][a-z]+ [A-Z][a-z]+( [A-Z][a-z]+)*$', text)
IsTitleCaseWords(text) == TitleWordsFrom(text, 1, 0)

\* lines 102-133; known_company_name may be None
is_company_name(text, known_company_name) ==
    IF text = None \/ text = "" THEN FALSE
    ELSE LET text_lower == Lower(text)
         IN \/ /\ known_company_name # None
               /\ known_company_name # ""
               /\ Contains(text_lower, Lower(known_company_name))
            \/ \E k \in 1..Len(company_indicators) :
                  WordSearch(company_indicators[k], text_lower)
            \/ IsUpper(text) /\ Len(text) > CompanyUpperLen
            \/ IsTitleCaseWords(text) /\ ~WordSearch(flexibility_markers, text_lower)

location_indicators ==
    << {"remote", "hybrid", "onsite", "on-site", "work from home", "wfh"},
       {"city", "county", "state", "province", "country", "region", "area",
        "district"},
       {"cairo", "alexandria", "giza", "egypt", "dubai", "riyadh", "saudi", "arabia",
        "london", "uk", "new york", "usa", "los angeles", "chicago", "toronto",
        "canada", "berlin", "germany", "paris", "france", "tokyo", "japan", "sydney",
        "australia"} >>

\* [A-Za-z\s]
IsLetterOrSpace(c) == IsLetter(c) \/ c \in Whitespace

\* re.search(r'[A-Za-z\s]+,\s*[A-Za-z\s]{2,}', s): \s* may stay empty, as
\* [A-Za-z\s] takes white space too
CityCommaSearch(s) ==
    \E i \in 2..(Len(s) - 2) :
        /\ CharAt(s, i) = ","
        /\ IsLetterOrSpace(CharAt(s, i - 1))
        /\ IsLetterOrSpace(CharAt(s, i + 1))
        /\ IsLetterOrSpace(CharAt(s, i + 2))

\* re.search(r'^[A-Za-z\s]+,\s*[A-Za-z\s]{2,}$', text); $ also matches in
\* front of a last line break
CityCommaFull(text) ==
    \E i \in 2..(Len(text) - 2) :
        /\ CharAt(text, i) = ","
        /\ \A k \in 1..(i - 1) : IsLetterOrSpace(CharAt(text, k))
        /\ \A k \in (i + 1)..Len(text) : IsLetterOrSpace(CharAt(text, k))

\* lines 136-159
is_valid_location(text) ==
    IF text = None \/ text = "" \/ Len(text) < LocationMinLen THEN FALSE
    ELSE \/ \E k \in 1..Len(location_indicators) :
               WordSearch(location_indicators[k], Lower(text))
         \/ CityCommaSearch(Lower(text))
         \/ CityCommaFull(text)

\* length of the run of digits behind the first pos characters
DigitRun(s, pos) ==
    MaxOf({k \in 0..(Len(s) - pos) :
              \A m \in 1..k : CharAt(s, pos + m) \in CharsOf(Digits)})

\* the position behind the white space that follows the first pos characters
SkipWhitespace(s, pos) == pos + WhitespaceRun(s, pos)

\* re.search(r'\b\d+\s*(hour|day|week|month|year)s?\s*ago\b', s)
TimeAgoSearch(s) ==
    \E i \in 1..Len(s) :
        /\ DigitRun(s, i - 1) >= 1
        /\ BoundaryBefore(s, i)
        /\ \E d \in 1..DigitRun(s, i - 1) :
           \E unit \in {"hour", "day", "week", "month", "year"} :
              LET p == SkipWhitespace(s, i - 1 + d)
              IN
                 /\ \E plural \in {"", "s"} :
                       LET q == SkipWhitespace(s, p + Len(unit \o plural))
                       IN /\ LitAt(s, p + 1, unit \o plural)
                          /\ LitAt(s, q + 1, "ago")
                          /\ BoundaryAfter(s, q + 3)

\* r'\b(location|workplace|where)\b'
location_labels == {"location", "workplace", "where"}

\* r'\b(posted|ago|apply|save|share|follow|job|position|role)\b'
skip_words ==
    {"posted", "ago", "apply", "save", "share", "follow", "job", "position", "role"}

\* re.search(r'^\d+\s*(applicant|connection|employee)', s)
CountLineSearch(s) ==
    /\ DigitRun(s, 0) >= 1
    /\ \E w \in {"applicant", "connection", "employee"} :
          LitAt(s, SkipWhitespace(s, DigitRun(s, 0)) + 1, w)

\* [A-Za-z\s,]
IsMentionChar(c) == IsLetterOrSpace(c) \/ c = ","

\* the end of the lazy group ([A-Za-z\s,]+?) that starts at position g and is
\* followed by (?:\.|,|\n|$), or 0
MentionEnd(s, g) ==
    LET ends == {e \in g..Len(s) :
                    /\ \A k \in g..e : IsMentionChar(CharAt(s, k))
                    /\ \/ e = Len(s)
                       \/ CharAt(s, e + 1) \in {".", ",", "\n"}}
    IN IF ends = {} THEN 0 ELSE MinOf(ends)

\* the matches of lead\s+word\s+([A-Za-z\s,]+?)(?:\.|,|\n|$) with the lead at
\* position i: <<j, g, e>> for a group from g to e with j characters of white
\* space in front of it
MentionsAt(s, i, lead, word) ==
    LET sl == Lower(s)
        a == i - 1 + Len(lead)
        b == SkipWhitespace(sl, a)
        c == b + Len(word)
    IN IF ~(LitAt(sl, i, lead) /\ b > a /\ LitAt(sl, b + 1, word)) THEN {}
       ELSE {<<j, c + j + 1, MentionEnd(s, c + j + 1)>> :
                j \in {k \in 1..WhitespaceRun(sl, c) : MentionEnd(s, c + k + 1) # 0}}

\* match.group(1) of re.search(pattern, desc_text, re.I) for the pattern with
\* the given leads (tried in their order at every position), or None
MentionGroup(s, leads) ==
    LET hits == {<<i, n>> \in (1..Len(s)) \X (1..Len(leads)) :
                    MentionsAt(s, i, leads[n][1], leads[n][2]) # {}}
    IN IF hits = {} THEN None
       ELSE LET i == MinOf({h[1] : h \in hits})
                n == MinOf({h[2] : h \in {x \in hits : x[1] = i}})
                ms == MentionsAt(s, i, leads[n][1], leads[n][2])
                j == MaxOf({x[1] : x \in ms})
                m == CHOOSE x \in ms : x[1] = j
            IN SubSeq(s, m[2], m[3])

\* the two location_patterns: the alternatives of each are two words with \s+
\* between them, followed by \s+ and the group
location_patterns ==
    << << <<"based", "in">>, <<"located", "in">>, <<"office", "in">> >>,
       << <<"work", "from">>, <<"position", "in">>, <<"role", "in">> >> >>


\* texts of the elements of a job page
PageTexts ==
    { "Cairo, Egypt", "acme, cairo", "cairo tech, egypt", "REMOTE", "Hybrid Cairo",
      "2 days ago" }

PageLabels == {"Location", "Seniority level"}

DescriptionTexts ==
    { "We are based in Cairo, Egypt.",
      "Our office in acme city.",
      "A role in  REMOTE\nteams" }

\* an element of the page that extract_location looks at: an item of the job
\* criteria (header, value), a topcard flavor, a label of the job details with
\* the element that follows it, a line of the topcard text, the description
PageElements ==
    [kind : {"criteria", "detail"}, label : PageLabels, text : PageTexts]
    \cup [kind : {"flavor", "line"}, label : {""}, text : PageTexts]
    \cup [kind : {"description"}, label : {""}, text : DescriptionTexts]

OfKind(job_soup, kind) == SelectSeq(job_soup, LAMBDA el : el.kind = kind)

CompanyNames == {None, "Acme"}

\* the test of lines 169-175 for one item of the job criteria
CriteriaPasses(el, company_name) ==
    /\ WordSearch(location_labels, Lower(el.label))
    /\ el.text # ""
    /\ Len(el.text) > MinLocationTextLen
    /\ ~is_company_name(el.text, company_name)

\* mutant: the topcard flavors are not checked against the company name shape
FlavorPasses_NoCompanyCheck(el, company_name) ==
    /\ ~TimeAgoSearch(Lower(el.text))
    /\ Len(el.text) > MinLocationTextLen
    /\ is_valid_location(el.text)

\* the test of lines 183-186 for one topcard flavor
FlavorPasses(el, company_name) ==
    /\ ~is_company_name(el.text, company_name)
    /\ ~TimeAgoSearch(Lower(el.text))
    /\ Len(el.text) > MinLocationTextLen
    /\ is_valid_location(el.text)

\* the test of lines 193-199 for one label of the job details
DetailPasses(el, company_name) ==
    /\ WordSearch(location_labels, Lower(el.label))
    /\ el.text # ""
    /\ Len(el.text) > MinLocationTextLen
    /\ ~is_company_name(el.text, company_name)

\* the test of lines 211-219 for one line of the topcard
LinePasses(el, company_name) ==
    /\ ~(\/ WordSearch(skip_words, Lower(el.text))
         \/ CountLineSearch(Lower(el.text))
         \/ Len(el.text) < MinLineLen
         \/ is_company_name(el.text, company_name))
    /\ is_valid_location(el.text)

\* lines 230-238 for the match of one pattern
MentionPasses(potential_location, company_name) ==
    /\ Len(potential_location) > MinLocationTextLen
    /\ Len(potential_location) < MaxMentionLen
    /\ ~is_company_name(potential_location, company_name)
    /\ is_valid_location(potential_location)

\* match.group(1).strip() for every pattern that matches desc_text
MentionsOf(desc_text) ==
    [n \in 1..Len(location_patterns) |->
        IF MentionGroup(desc_text, location_patterns[n]) = None THEN None
        ELSE Strip(MentionGroup(desc_text, location_patterns[n]))]

\* lines 224-238 for the text of the description
DescriptionLocation(desc_text, company_name) ==
    FirstOrNone(SelectSeq(MentionsOf(desc_text),
        LAMBDA potential_location :
            /\ potential_location # None
            /\ MentionPasses(potential_location, company_name)))

\* the test of its strategy for an element
Passes(el, company_name) ==
    CASE el.kind = "criteria" -> CriteriaPasses(el, company_name)
      [] el.kind = "flavor" -> FlavorPasses(el, company_name)
      [] el.kind = "detail" -> DetailPasses(el, company_name)
      [] el.kind = "line" -> LinePasses(el, company_name)
      [] OTHER -> DescriptionLocation(el.text, company_name) # None

\* the elements that pass the test of their strategy, per company name,
\* enumerated once: the tests are pure in the element and the name
PassingElements ==
    UNION {IF Passes(p[1], p[2]) THEN {p} ELSE {} : p \in PageElements \X CompanyNames}

DescriptionLocationOf ==
    [desc_text \in DescriptionTexts |->
        [company_name \in CompanyNames |-> DescriptionLocation(desc_text, company_name)]]

TextsOf(elements) == [i \in 1..Len(elements) |-> elements[i].text]

\* the text of the first element of a kind that passes the test of its strategy
FirstPassing(job_soup, company_name, kind) ==
    FirstOrNone(TextsOf(SelectSeq(OfKind(job_soup, kind),
                                  LAMBDA el : <<el, company_name>> \in PassingElements)))

\* lines 166-176
LocationFromCriteria(job_soup, company_name) ==
    FirstPassing(job_soup, company_name, "criteria")

\* lines 179-187
LocationFromFlavors(job_soup, company_name) ==
    FirstPassing(job_soup, company_name, "flavor")

\* lines 190-200
LocationFromDetails(job_soup, company_name) ==
    FirstPassing(job_soup, company_name, "detail")

\* lines 203-219
LocationFromTopcard(job_soup, company_name) ==
    FirstPassing(job_soup, company_name, "line")

\* lines 222-238: find() gives the first description
LocationFromDescription(job_soup, company_name) ==
    IF OfKind(job_soup, "description") = <<>> THEN None
    ELSE DescriptionLocationOf[OfKind(job_soup, "description")[1].text][company_name]

\* lines 162-240: the first strategy that returns
extract_location(job_soup, company_name) ==
    FirstOrNone(SelectSeq(<< LocationFromCriteria(job_soup, company_name),
                             LocationFromFlavors(job_soup, company_name),
                             LocationFromDetails(job_soup, company_name),
                             LocationFromTopcard(job_soup, company_name),
                             LocationFromDescription(job_soup, company_name) >>,
                          LAMBDA found : found # None))

InitLocation ==
    /\ StoreIdle
    /\ FlexIdle
    /\ SecIdle
    /\ SkillIdle
    /\ \E job_soup \in SeqsUpTo(PageElements, MaxElements), company_name \in CompanyNames :
          page = [job_soup |-> job_soup, company_name |-> company_name]
    /\ location = [state |-> "pending", value |-> None]
    /\ employment_type = [state |-> "pending", value |-> None]
    /\ ScrapeIdle

\* linkedin_scraper.py line 371
ExtractLocation ==
    /\ location.state = "pending"
    /\ location' = [state |-> "returned",
                    value |-> extract_location(page.job_soup, page.company_name)]
    /\ UNCHANGED <<page, employment_type, scraper, pager, storeVars, flexVars, secVars, skillVars>>

NextLocation == ExtractLocation

SpecLocation == InitLocation /\ [][NextLocation]_vars

----------------------------------------------------------------------------
(* extract_employment_type (dags/scripts/linkedin_scraper.py) *)

\* the alternatives of the group of employment_patterns, line 247: one word, or
\* two parts with ".?" between them
employment_patterns ==
    << <<"full", "time">>, <<"part", "time">>, <<"contract">>, <<"temporary">>,
       <<"internship">>, <<"freelance">>, <<"remote">>, <<"hybrid">>,
       <<"on", "site">> >>

\* the position of the last character of the match of an alternative that
\* starts at position p of s and ends at a word boundary, or 0; ".?" takes
\* one character other than a line break when the rest then matches, and
\* none otherwise
AlternativeEnd(alt, s, p) ==
    IF Len(alt) = 1
    THEN IF LitAt(s, p, alt[1]) /\ BoundaryAfter(s, p + Len(alt[1]) - 1)
         THEN p + Len(alt[1]) - 1 ELSE 0
    ELSE IF ~LitAt(s, p, alt[1]) THEN 0
    ELSE LET q == p + Len(alt[1])
         IN IF /\ q <= Len(s)
               /\ CharAt(s, q) # "\n"
               /\ LitAt(s, q + 1, alt[2])
               /\ BoundaryAfter(s, q + Len(alt[2]))
            THEN q + Len(alt[2])
            ELSE IF LitAt(s, q, alt[2]) /\ BoundaryAfter(s, q + Len(alt[2]) - 1)
            THEN q + Len(alt[2]) - 1
            ELSE 0

\* re.search(pattern, text) and match.group(1): the leftmost match, of the
\* first alternative that matches there; None when there is no match
EmploymentMatch(s) ==
    LET starts == {p \in 1..Len(s) :
                      /\ BoundaryBefore(s, p)
                      /\ \E k \in 1..Len(employment_patterns) :
                            AlternativeEnd(employment_patterns[k], s, p) > 0}
    IN IF starts = {} THEN None
       ELSE LET p == MinOf(starts)
                k == MinOf({n \in 1..Len(employment_patterns) :
                               AlternativeEnd(employment_patterns[n], s, p) > 0})
            IN SubSeq(s, p, AlternativeEnd(employment_patterns[k], s, p))

RECURSIVE ReplaceChar(_, _, _)
\* str.replace(old, new) for one character
ReplaceChar(s, old, new) ==
    IF s = "" THEN ""
    ELSE (IF CharAt(s, 1) = old THEN new ELSE CharAt(s, 1))
            \o ReplaceChar(Tail(s), old, new)

\* lines 257 and 266: match.group(1).replace('.', '-').title()
FormatMatch(matched) == Title(ReplaceChar(matched, ".", "-"))

\* lines 251-257 for one section
EmploymentOfSection(el) ==
    LET matched == EmploymentMatch(Lower(Strip(el.text)))
    IN IF matched = None THEN None ELSE FormatMatch(matched)

\* lines 260-266 for the description div
EmploymentOfDescription(el) ==
    LET matched == EmploymentMatch(Lower(el.text))
    IN IF matched = None THEN None ELSE FormatMatch(matched)

\* lines 243-268
extract_employment_type(job_soup) ==
    LET details == OfKind(job_soup, "details")
        from_details ==
            SelectSeq([i \in 1..Len(details) |-> EmploymentOfSection(details[i])],
                      LAMBDA found : found # None)
        descs == OfKind(job_soup, "description")
    IN IF from_details # <<>> THEN from_details[1]
       ELSE IF descs # <<>> THEN EmploymentOfDescription(descs[1])
       ELSE None

\* texts of the sections and of the description: spellings of the employment
\* types and texts without any
EmploymentTexts ==
    { "Full-time", "Full time", "Fulltime", "FULL_TIME role", "full.time",
      "Part-time position", "Onsite", "On-site", "Contract",
      "A timely offer", "Overtime pay, part time" }

EmploymentElements == [kind : {"details", "description"}, label : {""}, text : EmploymentTexts]

InitEmployment ==
    /\ StoreIdle
    /\ FlexIdle
    /\ SecIdle
    /\ SkillIdle
    /\ \E job_soup \in SeqsUpTo(EmploymentElements, MaxElements) :
          page = [job_soup |-> job_soup, company_name |-> None]
    /\ location = [state |-> "pending", value |-> None]
    /\ employment_type = [state |-> "pending", value |-> None]
    /\ ScrapeIdle

\* linkedin_scraper.py line 378
ExtractEmploymentType ==
    /\ employment_type.state = "pending"
    /\ employment_type' = [state |-> "returned",
                           value |-> extract_employment_type(page.job_soup)]
    /\ UNCHANGED <<page, location, scraper, pager, storeVars, flexVars, secVars, skillVars>>

NextEmployment == ExtractEmploymentType

SpecEmployment == InitEmployment /\ [][NextEmployment]_vars

----------------------------------------------------------------------------
(* The paging loop of scrape_linkedin_jobs (dags/scripts/linkedin_scraper.py) *)

MaxTarget == 2
MaxListing == 2
MaxPageNum == 2

\* get_absolute_url, lines 33-41; hrefs are not empty
get_absolute_url(href) ==
    IF LitAt(href, 1, "/") THEN "https://www.linkedin.com" \o href
    ELSE IF LitAt(href, 1, "http") THEN href
    ELSE None

\* line 335: get_absolute_url(href) or href
JobLinkOf(href) ==
    IF get_absolute_url(href) # None THEN get_absolute_url(href) ELSE href

\* the href of the first anchor of an <li> of a result page; None: no anchor
\* with an href.  The server exposes two jobs, one of them under two hrefs.
Hrefs == {"/jobs/view/1", "https://www.linkedin.com/jobs/view/1", "/jobs/view/2"}
ListingItems == Hrefs \cup {None}

\* soup.find_all("li") of a result page
ResultPages == SeqsUpTo(ListingItems, MaxListing)

\* the duplicate test with no link ever taken as processed
IsProcessed_Never(job_link, processed_links) == FALSE

\* line 338: job_link in processed_links
IsProcessed(job_link, processed_links) == job_link \in processed_links

InitScrape ==
    /\ StoreIdle
    /\ FlexIdle
    /\ SecIdle
    /\ SkillIdle
    /\ page = [job_soup |-> <<>>, company_name |-> None]
    /\ location = [state |-> "pending", value |-> None]
    /\ employment_type = [state |-> "pending", value |-> None]
    /\ pager = NoPager
    /\ \E target_jobs \in 0..MaxTarget :
          scraper = [NoScraper EXCEPT !.pc = "fetch", !.target_jobs = target_jobs]

\* lines 313-319: the request for a result page raises; break, then line 405
\* and the return of line 422
FetchPageFails ==
    /\ scraper.pc = "fetch"
    /\ scraper' = [scraper EXCEPT !.pc = "returned"]
    /\ UNCHANGED <<page, location, employment_type, pager,
                   storeVars, flexVars, secVars, skillVars>>

\* lines 313-326: a result page arrives; without any <li> the loop is left
FetchPage ==
    /\ scraper.pc = "fetch"
    /\ \E job_listings \in ResultPages :
          scraper' = IF job_listings = <<>>
                     THEN [scraper EXCEPT !.pc = "returned"]
                     ELSE [scraper EXCEPT !.pc = "listing",
                                          !.job_listings = job_listings]
    /\ UNCHANGED <<page, location, employment_type, pager,
                   storeVars, flexVars, secVars, skillVars>>

\* lines 329-395: one iteration of "for job in job_listings"; detail_ok tells
\* whether the request for the job page succeeds
ProcessJob ==
    /\ scraper.pc = "listing"
    /\ scraper.job_listings # <<>>
    /\ \E detail_ok \in BOOLEAN :
          LET href == Head(scraper.job_listings)
              rest == Tail(scraper.job_listings)
              job_link == JobLinkOf(href)
              jobs_found == scraper.jobs_found + 1
          IN scraper' =
                IF href = None \/ IsProcessed(job_link, scraper.processed_links)
                THEN [scraper EXCEPT !.job_listings = rest]
                ELSE IF ~detail_ok
                THEN [scraper EXCEPT !.job_listings = rest,
                                     !.processed_links = @ \cup {job_link}]
                ELSE IF scraper.target_jobs # 0 /\ jobs_found >= scraper.target_jobs
                THEN [scraper EXCEPT !.pc = "returned",
                                     !.processed_links = @ \cup {job_link},
                                     !.all_jobs = Append(@, [job_link |-> job_link]),
                                     !.jobs_found = jobs_found]
                ELSE [scraper EXCEPT !.job_listings = rest,
                                     !.processed_links = @ \cup {job_link},
                                     !.all_jobs = Append(@, [job_link |-> job_link]),
                                     !.jobs_found = jobs_found]
    /\ UNCHANGED <<page, location, employment_type, pager,
                   storeVars, flexVars, secVars, skillVars>>

\* lines 397-400: the page is done.  page_num only numbers the log lines and,
\* through start, the URL of the next request; it is counted up to MaxPageNum.
NextPage ==
    /\ scraper.pc = "listing"
    /\ scraper.job_listings = <<>>
    /\ scraper' = [scraper EXCEPT !.pc = "fetch",
                                  !.page_num = MinOf({@ + 1, MaxPageNum})]
    /\ UNCHANGED <<page, location, employment_type, pager,
                   storeVars, flexVars, secVars, skillVars>>

NextScrape == FetchPageFails \/ FetchPage \/ ProcessJob \/ NextPage

SpecScrape == InitScrape /\ [][NextScrape]_vars

\* every request times out and every sleep ends, so the loop keeps stepping
SpecScrapeLive == SpecScrape /\ WF_vars(NextScrape)

----------------------------------------------------------------------------
(* The paging loop of scrape_linkedin_jobs (scraping_script.py), page by page.
   pager.pages_without_new observes the loop: the number of successfully
   fetched pages, up to now and without a gap, that yielded no new job id;
   it is counted up to max_consecutive_empty_pages. *)

\* lines 340-343
max_consecutive_failures == 15
max_consecutive_empty_pages == 5
max_pages == 200

\* the job ids of the data-entity-urn attributes the server lists
JobIds == {"4101", "4102"}

\* the ids of the base-card listings of a result page that has any
Listings == SUBSET JobIds \ {{}}

PagerUnchanged ==
    UNCHANGED <<page, location, employment_type, scraper,
                storeVars, flexVars, secVars, skillVars>>

InitPaging ==
    /\ StoreIdle
    /\ FlexIdle
    /\ SecIdle
    /\ SkillIdle
    /\ page = [job_soup |-> <<>>, company_name |-> None]
    /\ location = [state |-> "pending", value |-> None]
    /\ employment_type = [state |-> "pending", value |-> None]
    /\ scraper = NoScraper
    /\ \E target_jobs \in 0..MaxTarget :
          pager = [NoPager EXCEPT !.pc = "loop", !.target_jobs = target_jobs]

\* the loop test of line 346 holds
InLoop == pager.pc = "loop" /\ pager.page_num < max_pages

\* lines 358-366: status 429; the same page is asked for again
PageRateLimited ==
    /\ InLoop
    /\ pager' = IF pager.consecutive_failures + 1 >= max_consecutive_failures
                THEN [pager EXCEPT !.pc = "done", !.consecutive_failures = @ + 1]
                ELSE [pager EXCEPT !.consecutive_failures = @ + 1]
    /\ PagerUnchanged

\* lines 368-377: another status than 200, and lines 565-573: the request raises
PageFails ==
    /\ InLoop
    /\ pager' = IF pager.consecutive_failures + 1 >= max_consecutive_failures
                THEN [pager EXCEPT !.pc = "done", !.consecutive_failures = @ + 1]
                ELSE [pager EXCEPT !.consecutive_failures = @ + 1,
                                   !.page_num = @ + 1]
    /\ PagerUnchanged

\* lines 379-398: status 200 and no base-card listing on the page
PageWithoutListings ==
    /\ InLoop
    /\ LET empty_pages == pager.consecutive_empty_pages + 1
           observed == MinOf({pager.pages_without_new + 1, max_consecutive_empty_pages})
       IN pager' = IF empty_pages >= max_consecutive_empty_pages
                   THEN [pager EXCEPT !.pc = "done",
                                      !.consecutive_failures = 0,
                                      !.consecutive_empty_pages = empty_pages,
                                      !.pages_without_new = observed]
                   ELSE [pager EXCEPT !.consecutive_failures = 0,
                                      !.consecutive_empty_pages = empty_pages,
                                      !.page_num = @ + 1,
                                      !.pages_without_new = observed]
    /\ PagerUnchanged

\* lines 400 and 418-419: consecutive_empty_pages after a page with listings
EmptyPagesAfterListings(consecutive_empty_pages, id_list) ==
    IF id_list = {} THEN 0 + 1 ELSE 0

\* lines 379-563: status 200 and listings on the page; scraped is the number
\* of new jobs whose page is fetched and read before the for loop ends
PageWithListings ==
    /\ InLoop
    /\ \E listing \in Listings :
          LET id_list == listing \ pager.processed_job_ids
              empty_pages == EmptyPagesAfterListings(pager.consecutive_empty_pages, id_list)
              observed == IF id_list = {}
                          THEN MinOf({pager.pages_without_new + 1,
                                      max_consecutive_empty_pages})
                          ELSE 0
              room == IF pager.target_jobs = 0 THEN Cardinality(id_list)
                      ELSE MinOf({Cardinality(id_list),
                                  MaxOf({0, pager.target_jobs - pager.jobs_found})})
          IN IF id_list = {} /\ empty_pages >= max_consecutive_empty_pages
             THEN pager' = [pager EXCEPT !.pc = "done",
                                         !.consecutive_failures = 0,
                                         !.consecutive_empty_pages = empty_pages,
                                         !.pages_without_new = observed]
             ELSE \E scraped \in 0..room :
                     LET jobs_found == pager.jobs_found + scraped
                     IN pager' =
                           [pager EXCEPT
                               !.pc = IF pager.target_jobs # 0
                                         /\ jobs_found >= pager.target_jobs
                                      THEN "done" ELSE "loop",
                               !.consecutive_failures = 0,
                               !.consecutive_empty_pages = empty_pages,
                               !.processed_job_ids = @ \cup id_list,
                               !.page_num = @ + 1,
                               !.jobs_found = jobs_found,
                               !.pages_without_new = observed]
    /\ PagerUnchanged

\* line 346: page_num has reached max_pages
PagesExhausted ==
    /\ pager.pc = "loop"
    /\ pager.page_num >= max_pages
    /\ pager' = [pager EXCEPT !.pc = "done"]
    /\ PagerUnchanged

NextPaging ==
    \/ PageRateLimited
    \/ PageFails
    \/ PageWithoutListings
    \/ PageWithListings
    \/ PagesExhausted

SpecPaging == InitPaging /\ [][NextPaging]_vars

----------------------------------------------------------------------------
(* Claims about the flexibility classifiers *)

\* the ordered rule of the specification, on a triple of scores
OrderedRule(sc) ==
    LET val == [f \in {"Remote", "Hybrid", "On-site"} |->
                   CASE f = "Remote" -> sc.remote
                     [] f = "Hybrid" -> sc.hybrid
                     [] OTHER -> sc.onsite]
        dominant == {f \in DOMAIN val : \A g \in DOMAIN val \ {f} : val[f] > val[g]}
    IN CASE dominant # {} -> CHOOSE f \in dominant : TRUE
         [] dominant = {} /\ sc.remote > 0 /\ sc.hybrid > 0 -> "Hybrid"
         [] dominant = {} /\ sc.remote > 0 /\ sc.hybrid = 0 -> "Remote"
         [] dominant = {} /\ sc.remote = 0 /\ sc.hybrid > 0 -> "Hybrid"
         [] dominant = {} /\ sc.remote = 0 /\ sc.hybrid = 0 /\ sc.onsite > 0 -> "On-site"
         [] OTHER -> "UNDEFINED"

\* C7: for every triple of family scores detect_job_flexibility returns the
\* strictly dominant family if there is one, else Hybrid if remote and hybrid
\* are both nonzero, else Remote, Hybrid, On-site for the one nonzero score in
\* that order, else UNDEFINED.
C7_OrderedRule ==
    decision # "pending" => decision = OrderedRule(scores)

\* on-site dominates a remote/hybrid tie
C7_Witness ==
    /\ decision = "On-site"
    /\ scores.remote = scores.hybrid
    /\ scores.remote > 0

\* C8 as stated: a text whose remote and hybrid families match with equal
\* nonzero counts is classified Hybrid whatever the on-site count is.
C8_EqualCountsAlwaysHybrid ==
    (flexibility # "pending" /\ scores.remote = scores.hybrid /\ scores.remote > 0)
        => flexibility = "Hybrid"

\* C8 amended: such a text is classified Hybrid unless the on-site count is
\* strictly greater than the common remote/hybrid count, and then On-site; never
\* Remote or UNDEFINED.
C8_EqualCountsHybridUnlessOnsiteDominates ==
    (flexibility # "pending" /\ scores.remote = scores.hybrid /\ scores.remote > 0)
        => flexibility = (IF scores.onsite > scores.remote THEN "On-site" ELSE "Hybrid")

\* a three-way tie has been classified
C8_Witness ==
    /\ flexibility = "Hybrid"
    /\ scores.remote = scores.hybrid
    /\ scores.remote > 0
    /\ scores.onsite = scores.remote

\* C9: the flexibility the pipeline's scraper stores follows the Hybrid-biased
\* precedence: a page whose text holds a remote-family keyword and a
\* hybrid-family keyword is classified Hybrid, not Remote.
C9_PageWithBothKeywordsIsHybrid ==
    (/\ page_flexibility # "pending"
     /\ KeywordHit(1, Lower(text_content))
     /\ KeywordHit(2, Lower(text_content)))
        => page_flexibility = "Hybrid"

----------------------------------------------------------------------------
(* Claims about the store write of main_enrichment *)

RowsWithLink(rows, k) == {i \in 1..Len(rows) : rows[i].job_link = k}

\* a description the filter of lines 64-65 is meant to exclude
Excluded(d) == d.desc \in {"null", "fr", "undetectable"}

\* C1: after a completed store write raw_job_postings never holds two rows with
\* the same job_link, whatever the incoming batch was (a batch that repeats a
\* job_link included).  Stated for a prior table that itself holds no job_link
\* twice, so that a violation is the write's own doing.
C1_NoDuplicateLinkAfterWrite ==
    (pc = "done" /\ \A k \in Keys : Cardinality(RowsWithLink(table0, k)) <= 1) =>
        \A i, j \in 1..Len(table) :
            i # j => table[i].job_link # table[j].job_link

\* C2: ingesting the same batch a second time leaves the table as the first
\* ingestion left it, with exactly one row per job_link of the batch.
C2_SameBatchTwice ==
    (pc = "done" /\ prevDone) =>
        /\ table = table0
        /\ \A k \in JobLinks(df) : Cardinality(RowsWithLink(table, k)) = 1

\* C3: after a completed store write of B the rows stored under B's job_links
\* are exactly B's rows (no row stored earlier under such a link survives),
\* and a table that did not exist is created holding exactly B.
C3_FullReplacement ==
    pc = "done" =>
        /\ tableExists
        /\ SelectRows(table, JobLinks(df), TRUE) = df
        /\ \A i \in 1..Len(df) :
               /\ df[i].hard_skills = HardSkillsOf(df[i].desc)
               /\ df[i].soft_skills = SoftSkillsOf(df[i].desc)
        /\ (~exists0 => table = df)

\* an earlier row was superseded by a batch row with other field values
C3_Witness ==
    /\ pc = "done"
    /\ exists0
    /\ \E i \in 1..Len(table0) :
           /\ table0[i].job_link \in JobLinks(df)
           /\ \A j \in 1..Len(df) :
                  df[j].job_link = table0[i].job_link => df[j].val # table0[i].val

\* C4: in every state of a store write, also between DELETE and INSERT and
\* after a crash there, the rows whose job_link is not a key of the incoming
\* batch are all present and unchanged; only rows of the batch's keys can be
\* missing.
C4_OtherRowsUntouched ==
    LET ks == JobLinks(FilterBatch(batch))
    IN /\ SelectRows(table, ks, FALSE) = SelectRows(table0, ks, FALSE)
       /\ (exists0 => tableExists)
       /\ \A i \in 1..Len(table0) :
              Cardinality({j \in 1..Len(table) : table[j] = table0[i]})
                  < Cardinality({j \in 1..Len(table0) : table0[j] = table0[i]})
              => table0[i].job_link \in JobLinks(batch)

\* a crash after the DELETE removed a row and left another one in place
C4_Witness ==
    /\ pc = "crashed"
    /\ Len(table) < Len(table0)
    /\ table # <<>>

\* C5: a document whose processing raises does not abort the batch: when the
\* run has ended every kept document went through the loop and the store was
\* written.
C5_FailureDoesNotAbortBatch ==
    (pc \in {"done", "raised"} /\ batch # <<>>) =>
        /\ pc = "done"
        /\ annotated = KeptPositions(batch)

\* C6 as stated: an excluded document is never annotated and the batch inserts
\* no row carrying its job_link.
C6_NoRowWithExcludedLink ==
    \A i \in 1..Len(batch) :
        Excluded(batch[i]) =>
            /\ i \notin annotated
            /\ \A j \in 1..Len(inserted) : inserted[j].job_link # batch[i].job_link

\* C6 amended: an excluded document is never annotated and contributes no row:
\* the rows the batch inserts are, in order, the rows of its other documents
\* (so a row with an excluded document's job_link is inserted only when another
\* document of the batch has that job_link and passes the filter).
C6_ExcludedContributesNoRow ==
    LET pos == SortedSeq({i \in 1..Len(batch) : ~Excluded(batch[i])})
    IN /\ \A i \in annotated : ~Excluded(batch[i])
       /\ pc \in {"start", "raised"} \/ Len(df) = Len(pos)
       /\ inserted # <<>> =>
              /\ Len(inserted) = Len(pos)
              /\ \A i \in 1..Len(pos) :
                     /\ inserted[i].job_link = batch[pos[i]].job_link
                     /\ inserted[i].val = batch[pos[i]].val
                     /\ inserted[i].desc = batch[pos[i]].desc

\* a batch with an excluded document and a kept one has been written
C6_Witness ==
    /\ pc = "done"
    /\ inserted # <<>>
    /\ \E i \in 1..Len(batch) : Excluded(batch[i])

----------------------------------------------------------------------------
(* Claims about extract_job_sections_improved *)

\* the positions of the blocks that match a major heading pattern
HeadingPositions == {i \in 1..Len(blocks) : IsMajorHeading(blocks[i])}

\* the blocks in front of the first major heading, all of them when there is
\* no major heading
BlocksBeforeFirstHeading ==
    IF HeadingPositions = {} THEN blocks
    ELSE [i \in 1..(MinOf(HeadingPositions) - 1) |-> blocks[i]]

\* C10: the Summary (job description) is exactly the blocks in front of the
\* first block that matches a major heading pattern, in order and joined by
\* single spaces, without that heading block and without anything behind it;
\* with no major heading it is all the blocks joined, and when the first block
\* is a major heading (or there are no blocks) it is None.
C10_SummaryIsBlocksBeforeFirstHeading ==
    sections.state = "returned" =>
        IF BlocksBeforeFirstHeading = <<>>
        THEN sections.job_description = None
        ELSE sections.job_description = JoinWith(BlocksBeforeFirstHeading, " ")

\* a returned description with two blocks in front of its first major heading
\* and a block behind it
C10_Witness ==
    /\ sections.state = "returned"
    /\ HeadingPositions # {}
    /\ MinOf(HeadingPositions) = 3
    /\ Len(blocks) > 3
    /\ sections.job_description = JoinWith(SubSeq(blocks, 1, 2), " ")

\* the blocks that the keyword fallback for Required accepts
RequiredKeywordBlocks ==
    {i \in 1..Len(blocks) :
        /\ KeywordCount(requirement_keywords, blocks[i]) >= RequiredMinKeywords
        /\ Len(blocks[i]) > RequiredMinLen}

\* the blocks that the keyword fallback for Preferred accepts
PreferredKeywordBlocks ==
    {i \in 1..Len(blocks) :
        /\ KeywordCount(preferred_keywords, blocks[i]) >= 1
        /\ Len(blocks[i]) > PreferredMinLen}

RequiredHeadingPositions == {i \in 1..Len(blocks) : Matches(required_patterns, blocks[i])}

PreferredHeadingPositions == {i \in 1..Len(blocks) : Matches(preferred_patterns, blocks[i])}

\* C11 as stated: Required qualifications are None whenever no block matches
\* a Required heading pattern, and Preferred qualifications are None whenever
\* no block matches a Preferred heading pattern.
C11_NoHeadingNoQualifications ==
    sections.state = "returned" =>
        /\ RequiredHeadingPositions = {} => sections.required_qualifications = None
        /\ PreferredHeadingPositions = {} => sections.preferred_qualifications = None

\* C11 amended: Required qualifications are None whenever no block matches a
\* Required heading pattern and no block passes the Required keyword fallback
\* (two requirement keywords, more than 30 characters); Preferred
\* qualifications are None whenever no block matches a Preferred heading
\* pattern and no block passes the Preferred keyword fallback (one preferred
\* keyword, more than 30 characters).
C11_NoHeadingNoKeywordBlockNoQualifications ==
    sections.state = "returned" =>
        /\ (RequiredHeadingPositions = {} /\ RequiredKeywordBlocks = {})
               => sections.required_qualifications = None
        /\ (PreferredHeadingPositions = {} /\ PreferredKeywordBlocks = {})
               => sections.preferred_qualifications = None

\* a returned description with a block that holds one requirement keyword, no
\* Required or Preferred heading and no block for either fallback
C11_Witness ==
    /\ sections.state = "returned"
    /\ \E i \in 1..Len(blocks) : KeywordCount(requirement_keywords, blocks[i]) = 1
    /\ RequiredHeadingPositions = {} /\ RequiredKeywordBlocks = {}
    /\ PreferredHeadingPositions = {} /\ PreferredKeywordBlocks = {}
    /\ sections.required_qualifications = None
    /\ sections.preferred_qualifications = None

CompanyHeadingPositions ==
    {i \in 1..Len(blocks) : Matches(company_heading_patterns, blocks[i])}

\* C18: whenever a block matches a Company, Required or Preferred heading
\* pattern, the content returned for that section is what the heading branch
\* produces, never a block picked by the keyword fallback.
C18_HeadingBeforeKeywordFallback ==
    sections.state = "returned" =>
        /\ CompanyHeadingPositions # {}
              => sections.company_description = CompanyFromHeading(blocks, 1)
        /\ RequiredHeadingPositions # {}
              => sections.required_qualifications = RequiredFromHeading(blocks, 1)
        /\ PreferredHeadingPositions # {}
              => sections.preferred_qualifications = PreferredFromHeading(blocks, 1)

\* the non-empty pieces between runs of two or more line breaks, stripped
BlankLinePieces == StrippedNonEmpty(SplitBlankLines(full_text))

\* the non-empty pieces between line breaks, stripped
LinePieces == StrippedNonEmpty(SplitLines(full_text))

\* the blocks that a sequence of pieces leaves: the pieces of more than
\* MinBlockLen characters, in their order, each with its whitespace collapsed
BlocksOfPieces(pieces) ==
    LET kept == SelectSeq(pieces, LAMBDA b : Len(b) > MinBlockLen)
    IN [i \in 1..Len(kept) |-> CollapseWhitespace(kept[i])]

\* C20: the blocks come from the split on runs of two or more line breaks,
\* and from the split on single line breaks exactly when the blank-line split
\* yields fewer than MinInitialBlocks non-empty pieces, counted before the
\* length filter; in both cases the blocks are in the document order of the
\* pieces they come from.
C20_BlankLineSplitUnlessFewPieces ==
    sections.state = "returned" =>
        blocks = IF Len(BlankLinePieces) < MinInitialBlocks
                 THEN BlocksOfPieces(LinePieces)
                 ELSE BlocksOfPieces(BlankLinePieces)

\* the blank-line split is used although fewer than MinInitialBlocks of its
\* pieces pass the length filter, and it differs from the line split
C20_Witness ==
    /\ sections.state = "returned"
    /\ Len(BlankLinePieces) >= MinInitialBlocks
    /\ Len(blocks) < MinInitialBlocks
    /\ blocks # <<>>
    /\ blocks # BlocksOfPieces(LinePieces)

\* C21: every block of the segmenter's output is non-empty, trimmed and longer
\* than MinBlockLen characters, also when its whitespace runs were collapsed.
C21_BlocksTrimmedAndLongerThanThreshold ==
    sections.state = "returned" =>
        \A i \in 1..Len(blocks) :
            /\ blocks[i] # ""
            /\ Strip(blocks[i]) = blocks[i]
            /\ Len(blocks[i]) > MinBlockLen

\* the relevance gate as stated: some token with a vector is at least
\* similarity_threshold close to some seed trigger, or one of the first two
\* tokens is a verb that is ROOT or conj, or a verb tagged VBG
RelevanceGate(tokens) ==
    \/ \E i \in 1..Len(tokens), k \in 1..Len(seed_triggers) :
          tokens[i].has_vector /\ tokens[i].similarity[k] >= similarity_threshold
    \/ \E i \in 1..Len(tokens) :
          /\ i <= 2
          /\ tokens[i].pos = "VERB"
          /\ tokens[i].dep = "ROOT" \/ tokens[i].dep = "conj" \/ tokens[i].tag = "VBG"

\* the ids that the annotator returns for sentences of the description that
\* pass, or fail, the relevance gate
IdsReturnedFor(passing) ==
    UNION {RangeOf(skill_doc.sentences[i].full_matches \o skill_doc.sentences[i].ngram_scored) :
              i \in {j \in 1..Len(skill_doc.sentences) :
                        RelevanceGate(skill_doc.sentences[j].tokens) = passing}}

\* C22: the annotator is called for a sentence exactly when the relevance gate
\* holds for it, and a skill id that the annotator returns only for sentences
\* failing the gate is in neither hard_skills nor soft_skills.
C22_AnnotatorCalledIffGate ==
    out1.state = "returned" =>
        /\ \A i \in 1..Len(skill_doc.sentences) :
              i \in RangeOf(out1.annotate_calls)
                  <=> RelevanceGate(skill_doc.sentences[i].tokens)
        /\ \A id \in IdsReturnedFor(FALSE) \ IdsReturnedFor(TRUE) :
              SKILL_DB[id].skill_name \notin RangeOf(out1.hard_skills \o out1.soft_skills)

\* a skill returned for a sentence that fails the gate is left out while the
\* skill of a sentence that passes it is recorded
C22_Witness ==
    /\ out1.state = "returned"
    /\ "KS_PYTHON" \in IdsReturnedFor(FALSE) \ IdsReturnedFor(TRUE)
    /\ "KS_TEAMWORK" \in IdsReturnedFor(TRUE)
    /\ out1.soft_skills = <<"Teamwork">>
    /\ out1.hard_skills = <<>>
    /\ Len(out1.annotate_calls) = 1

\* the one name of each employment type: title-cased, its two parts joined
\* by a hyphen
CanonicalEmploymentTypes ==
    { "Full-Time", "Part-Time", "Contract", "Temporary", "Internship",
      "Freelance", "Remote", "Hybrid", "On-Site" }

\* C23: extract_employment_type returns the first match title-cased with its
\* hyphens normalized, so every spelling of an employment type that the
\* pattern accepts ("full-time", "full time", "fulltime") yields the one
\* hyphenated name of the type ("Full-Time").
C23_OneCanonicalNamePerType ==
    employment_type.state = "returned" =>
        employment_type.value \in CanonicalEmploymentTypes \cup {None}

\* C24: scrape_linkedin_jobs runs to completion: whatever the result pages
\* and job pages of a server with finitely many job links are, also when
\* pages list only processed links and target_jobs is never reached, the
\* loop eventually returns the DataFrame.
C24_ScrapeEventuallyReturns == <>(scraper.pc = "returned")

\* C26: at every point of a scrape the rows collected so far have pairwise
\* distinct job_link values.
C26_CollectedLinksDistinct ==
    \A i, j \in 1..Len(scraper.all_jobs) :
        scraper.all_jobs[i].job_link = scraper.all_jobs[j].job_link => i = j

\* two rows are collected and the page being read repeats the link of one of
\* them, under its other href
C26_Witness ==
    /\ scraper.pc = "listing"
    /\ Len(scraper.all_jobs) = 2
    /\ scraper.job_listings # <<>>
    /\ Head(scraper.job_listings) = "/jobs/view/1"
    /\ scraper.all_jobs[1].job_link = "https://www.linkedin.com/jobs/view/1"
    /\ scraper.page_num >= 1

\* C25: the paging loop of scraping_script stops as soon as
\* max_consecutive_empty_pages successfully fetched pages in a row have yielded
\* no new job id, whether they had no listings or only processed ids, without
\* waiting for max_pages.
C25_StopsAfterPagesWithoutNewJobs ==
    pager.pages_without_new >= max_consecutive_empty_pages => pager.pc = "done"

\* C27: main_enrichment touches the store only after the annotation of every
\* document of the batch has finished: while it filters and annotates, and
\* when the annotation raises or the batch has no job description column,
\* raw_job_postings is as it was when the run started (no row deleted, none
\* inserted, table not created).
C27_StoreUntouchedUntilAnnotated ==
    /\ pc \in {"start", "annotate", "raised"}
          => table = table0 /\ tableExists = exists0
    /\ pc \in {"delete", "insert", "create", "done"}
          => idx > Len(df) /\ annotated = KeptPositions(batch)

\* the annotation has raised after a document whose job_link is stored was
\* annotated
C27_Witness ==
    /\ pc = "raised"
    /\ tableExists
    /\ idx > 1
    /\ \E i \in 1..Len(table) : table[i].job_link = df[1].job_link

\* a heading of any tracked kind
IsTrackedHeading(block) ==
    \/ IsMajorHeading(block)
    \/ Matches(company_heading_patterns, block)
    \/ Matches(required_patterns, block)
    \/ Matches(preferred_patterns, block)

RECURSIVE BlocksUntilTrackedHeading(_, _, _)
\* the consecutive blocks from block j on, up to and without the first heading
\* of a tracked kind, and at most cap of them
BlocksUntilTrackedHeading(bs, j, cap) ==
    IF j > Len(bs) \/ cap = 0 \/ IsTrackedHeading(bs[j]) THEN <<>>
    ELSE <<bs[j]>> \o BlocksUntilTrackedHeading(bs, j + 1, cap - 1)

\* the content that a section has when the block of its first heading, at
\* position i, has a remainder of at most min_len characters and blocks are
\* collected behind it
CollectedAsClaimed(content, patterns, positions, min_len, cap) ==
    positions # {} =>
        LET i == MinOf(positions)
            expected == BlocksUntilTrackedHeading(blocks, i + 1, cap)
        IN (Len(AfterHeading(patterns, blocks[i])) <= min_len /\ expected # <<>>)
              => content = JoinWith(expected, " ")

\* C19: when the block of a section heading has no substantial remainder, the
\* section content is the consecutive blocks behind the heading, up to and
\* without the first block that matches a heading of any tracked kind (major,
\* company, required or preferred) and never more than the cap, so that no
\* collected block matches a tracked heading pattern.
C19_CollectedUpToAnyTrackedHeading ==
    sections.state = "returned" =>
        /\ CollectedAsClaimed(sections.company_description, company_heading_patterns,
                              CompanyHeadingPositions, CompanyAfterLen,
                              CompanyMaxCollected + 1)
        /\ CollectedAsClaimed(sections.required_qualifications, required_patterns,
                              RequiredHeadingPositions, RequiredAfterLen,
                              RequiredMaxCollected)
        /\ CollectedAsClaimed(sections.preferred_qualifications, preferred_patterns,
                              PreferredHeadingPositions, PreferredAfterLen,
                              PreferredMaxCollected)

----------------------------------------------------------------------------
(* Claims about should_remove and the skill annotation of main_enrichment *)

\* C13: "r" is kept if and only if the lower-cased description contains
\* "r programming" or "rstudio"; "c" is kept if and only if it contains
\* "c programming", "embedded c" or "c++"; every other name of at most two
\* characters is removed whatever the description is.
C13_SingleLetterNeedsContext ==
    removal.state = "returned" =>
        LET s == Strip(Lower(removal.skill_name))
            context == Lower(removal.desc)
        IN /\ s = "r" =>
                (~removal.result <=>
                    (Contains(context, "r programming") \/ Contains(context, "rstudio")))
           /\ s = "c" =>
                (~removal.result <=>
                    (\/ Contains(context, "c programming")
                     \/ Contains(context, "embedded c")
                     \/ Contains(context, "c++")))
           /\ (Len(removal.skill_name) <= 2 /\ s \notin {"r", "c"}) => removal.result

\* "R" is kept for a description that writes RStudio with capitals
C13_Witness ==
    /\ removal.state = "returned"
    /\ removal.skill_name = "R"
    /\ removal.desc = "We use RStudio daily"
    /\ ~removal.result

\* the annotations of the row that have returned
Outputs == {o \in {out1, out2} : o.state = "returned"}

\* how often a name occurs in a list
Occurrences(names, n) == Cardinality({i \in 1..Len(names) : names[i] = n})

\* the ids that some eligible sentence of the row was annotated with
AnnotatedIds(sentences) ==
    UNION {RangeOf(sentences[i].full_matches) \cup RangeOf(sentences[i].ngram_scored) :
              i \in {j \in 1..Len(sentences) : sentences[j].eligible}}

\* C12: a skill whose lower-cased, trimmed name is in the denylist never
\* appears in hard_skills or soft_skills of a row, whichever sentences were
\* annotated with it, from full_matches or from ngram_scored, and whatever
\* the description says.
C12_DenylistedNeverInOutput ==
    \A o \in Outputs :
        \A n \in RangeOf(o.hard_skills) \cup RangeOf(o.soft_skills) :
            Strip(Lower(n)) \notin BLACKLIST

\* "Inquiry" came as a full match and as a scored n-gram of a description that
\* talks about an inquiry, next to a soft skill that is kept
C12_Witness ==
    /\ out1.state = "returned"
    /\ Contains(Lower(skill_doc.desc), "inquiry")
    /\ \E i \in 1..Len(skill_doc.sentences) :
          /\ skill_doc.sentences[i].eligible
          /\ skill_doc.sentences[i].full_matches = <<"KS_INQUIRY">>
    /\ \E i \in 1..Len(skill_doc.sentences) :
          /\ skill_doc.sentences[i].eligible
          /\ skill_doc.sentences[i].ngram_scored = <<"KS_INQUIRY">>
    /\ out1.soft_skills = <<"Teamwork">>

\* C14: every id that survives the filter contributes its name exactly once
\* to the output lists, however many sentences and match kinds returned it,
\* and annotating the row with every sentence repeated yields the same sets
\* of hard and soft skills.
C14_EachIdOnceAndRepeatIdempotent ==
    /\ \A o \in Outputs :
          \A id \in SurvivingIds(o.sentences, skill_doc.desc) :
              Occurrences(o.hard_skills \o o.soft_skills, SKILL_DB[id].skill_name) = 1
    /\ (out2.state = "returned" /\ out2.sentences = EachRepeated(skill_doc.sentences))
          => /\ RangeOf(out2.hard_skills) = RangeOf(out1.hard_skills)
             /\ RangeOf(out2.soft_skills) = RangeOf(out1.soft_skills)

\* C15: every id that survives the filter is in exactly one of hard_skills
\* and soft_skills, the one its skill_type names.
C15_SurvivorInExactlyOneList ==
    \A o \in Outputs :
        \A id \in SurvivingIds(o.sentences, skill_doc.desc) :
            LET n == SKILL_DB[id].skill_name
                in_hard == n \in RangeOf(o.hard_skills)
                in_soft == n \in RangeOf(o.soft_skills)
            IN /\ in_hard # in_soft
               /\ in_hard <=> SKILL_DB[id].skill_type = "Hard Skill"

\* C16: two annotations of the same description, sentences and annotator
\* results write the same hard_skills and soft_skills strings, the order of
\* the names included.
C16_SameInputsSameStrings ==
    (out2.state = "returned" /\ out2.sentences = skill_doc.sentences)
        => /\ out2.hard_column = out1.hard_column
           /\ out2.soft_column = out1.soft_column

----------------------------------------------------------------------------
(* Claims about extract_location *)

\* C17: whichever strategy produces it, what extract_location returns is None
\* or a text that is_company_name(text, company_name) rejects.
C17_LocationIsNoCompanyName ==
    location.state = "returned" =>
        \/ location.value = None
        \/ ~is_company_name(location.value, page.company_name)

\* a page whose first topcard flavor is a valid location that has the shape of
\* a company name, and for which a location is returned all the same
C17_Witness ==
    /\ location.state = "returned"
    /\ location.value # None
    /\ OfKind(page.job_soup, "flavor") # <<>>
    /\ LET first_flavor == OfKind(page.job_soup, "flavor")[1].text
       IN /\ is_valid_location(first_flavor)
          /\ is_company_name(first_flavor, page.company_name)
    /\ OfKind(page.job_soup, "criteria") = <<>>

====
